---------------------------- MODULE Spec2Model ----------------------------
(***************************************************************************)
(* A model of the reward-joining batch worker (src/src/worker.py).         *)
(*                                                                         *)
(* Part I models the reward engine: assign_rewards_to_decisions and        *)
(* update_listeners.  The records of the input list are Python dicts that  *)
(* the engine holds by reference: the buckets of the returned dict hold    *)
(* the very objects of the input list.  The model keeps the objects in     *)
(* the sequence `records` (the heap) and the buckets hold indices into it. *)
(*                                                                         *)
(* An optional dict entry is a sequence of length at most one: <<>> when   *)
(* the key is absent, <<v>> when it holds v.  Timestamps are absolute      *)
(* instants in whole time units (datetime.strptime yields an aware         *)
(* datetime; comparisons are on the instant).  Contributions are whole     *)
(* numbers, which float() represents exactly.                              *)
(***************************************************************************)
EXTENDS Integers, Sequences, FiniteSets, TLC

VARIABLES
    window,     \* worker.py:45  the reward window, read from the environment
    input,      \* the record list as it was handed to the first application
    records,    \* the record objects of the list, as the engine has left them
    buckets,    \* decision_records_by_reward_key: reward_key -> list of objects
    pos,        \* the position of the for loop of assign_rewards_to_decisions
    pc,         \* "loop" | "returned" | "raised"
    call,       \* how many times the engine has been applied to the list
    first,      \* the value returned by the first application
    scan,       \* the call of update_listeners under way, taken listener by listener
    \* Part II, the shard planner and the worker driver
    entries,    \* the entries of the input root: name -> is it a directory
    owned,      \* per node id, the results of its calls of identify_dirs_to_process
    inFS,       \* PATH_INPUT_DIR: directory -> file name -> [mtime, content]
    outFS,      \* PATH_OUTPUT_DIR: directory -> file name -> [mtime, data]
    clock,      \* the time of the filesystem
    env,        \* AWS_BATCH_JOB_ARRAY_INDEX, JOIN_REWARDS_JOB_ARRAY_SIZE, JOIN_REWARDS_REPROCESS_ALL
    wpc,        \* where worker() stands
    dirs_to_process,
    files_to_process,
    next_file,  \* the position of the for loop of worker()
    SIGTERM,    \* worker.py:47
    log,        \* what the runs did to the files, for the properties
    nodes,      \* the nodes of one job array on the one file tree: node id -> where its worker() stands
    \* Part III, the loader of assign_rewards/utils.py
    file_group, \* utils.py:27  the files of the group, in load order
    file_pos,   \* the position of the for loop of load_history
    loaded,     \* utils.py:28  records of load_history
    message_ids,\* utils.py:29
    stats,      \* the counters of the stats sink
    unrecoverable, \* the names of the files under UNRECOVERABLE_PATH
    lpc,        \* where load_history stands
    threads,    \* the pool threads that load file groups against the one stats sink
    hashed_history_id, \* utils.py:93  the identifier of the file group
    candidates, \* utils.py:93  the records handed to filter_valid_records
    results,    \* utils.py:95
    history_id, \* utils.py:97  <<>> for None
    record_pos, \* the position of the for loop of filter_valid_records
    fpc         \* where filter_valid_records stands

engineVars == <<window, input, records, buckets, pos, pc, call, first, scan>>

shardVars == <<entries, owned>>

workerVars == <<inFS, outFS, clock, env, wpc, dirs_to_process, files_to_process,
                next_file, SIGTERM, log, nodes>>

loaderVars == <<file_group, file_pos, loaded, message_ids, stats, unrecoverable, lpc,
               threads>>

filterVars == <<hashed_history_id, candidates, results, history_id, record_pos, fpc>>

vars == <<engineVars, shardVars, workerVars, loaderVars, filterVars>>

(***************************************************************************)
(* Bounds of the model.                                                    *)
(***************************************************************************)
MaxLen == 3         \* longest record list
MaxTime == 3        \* latest timestamp
MaxNodes == 3       \* largest JOIN_REWARDS_JOB_ARRAY_SIZE
MaxCalls == 2       \* calls of identify_dirs_to_process per node
MaxClock == 3       \* latest time of the filesystem

Windows == {1, 2}

(***************************************************************************)
(* Configuration constants imported by worker.py (lines 29-37).            *)
(***************************************************************************)
DEFAULT_REWARD_KEY == "reward"
DEFAULT_REWARD_VALUE == 0
DEFAULT_EVENTS_REWARD_VALUE == 1

(***************************************************************************)
(* dict.get(key, default) on an optional entry.                            *)
(***************************************************************************)
Get(entry, default) == IF entry = <<>> THEN default ELSE entry[1]

EmptyDict == <<>>

\* dict.get(key, default) on a dict modelled as a function
DictGet(dict, key, default) == IF key \in DOMAIN dict THEN dict[key] ELSE default

\* dict[key] = value
DictSet(dict, key, value) ==
    [k \in (DOMAIN dict) \cup {key} |-> IF k = key THEN value ELSE dict[k]]

\* del list[i]
Delete(list, i) == SubSeq(list, 1, i - 1) \o SubSeq(list, i + 1, Len(list))

(***************************************************************************)
(* update_listeners (worker.py:50-74).                                     *)
(***************************************************************************)
\* the comparison written with <= : the end of the window is left out
Expired_Exclusive(listener_timestamp, record_timestamp) ==
    listener_timestamp + window <= record_timestamp

\* worker.py:69
Expired(listener_timestamp, record_timestamp) ==
    listener_timestamp + window < record_timestamp

\* the reward assigned instead of accumulated
AddReward_Assign(listener, reward) ==
    [listener EXCEPT !.reward = <<DEFAULT_REWARD_VALUE + reward>>]

\* worker.py:74
AddReward(listener, reward) ==
    [listener EXCEPT !.reward = <<Get(listener.reward, DEFAULT_REWARD_VALUE) + reward>>]

\* The loop of worker.py:65-74, from index i down to the first listener.
\* `heap` are the record objects, `listeners` a list of references to them.
RECURSIVE UpdateLoop(_, _, _, _, _)
UpdateLoop(heap, listeners, i, record, reward) ==
    IF i = 0
    THEN [heap |-> heap, listeners |-> listeners]
    ELSE LET ref == listeners[i]
         IN  IF Expired(heap[ref].timestamp, record.timestamp)
             THEN UpdateLoop(heap, Delete(listeners, i), i - 1, record, reward)
             ELSE UpdateLoop([heap EXCEPT ![ref] = AddReward(heap[ref], reward)],
                             listeners, i - 1, record, reward)

update_listeners(heap, listeners, record, reward) ==
    UpdateLoop(heap, listeners, Len(listeners), record, reward)

(***************************************************************************)
(* assign_rewards_to_decisions (worker.py:77-120): one iteration of the    *)
(* for loop on the record at position p.  A state of the engine is         *)
(* [heap, dict, raised].                                                   *)
(***************************************************************************)
\* worker.py:99-103
DecisionBranch(st, p) ==
    LET record == st.heap[p]
        reward_key == Get(record.reward_key, DEFAULT_REWARD_KEY)
        listeners == DictGet(st.dict, reward_key, <<>>)
    IN  [st EXCEPT !.dict = DictSet(st.dict, reward_key, Append(listeners, p))]

\* One pass of a loop over reward keys: update_listeners on the bucket of
\* every key of `keys`.  A key without a bucket gets the fresh list of
\* dict.get(reward_key, []), which is dropped after the call.
RECURSIVE UpdateBuckets(_, _, _, _)
UpdateBuckets(st, keys, record, rewardOf) ==
    IF keys = {}
    THEN st
    ELSE LET reward_key == CHOOSE k \in keys : TRUE
             listeners == DictGet(st.dict, reward_key, <<>>)
             r == update_listeners(st.heap, listeners, record, rewardOf[reward_key])
             dict == IF reward_key \in DOMAIN st.dict
                     THEN [st.dict EXCEPT ![reward_key] = r.listeners]
                     ELSE st.dict
         IN  UpdateBuckets([st EXCEPT !.heap = r.heap, !.dict = dict],
                           keys \ {reward_key}, record, rewardOf)

\* the rewards record heard by every bucket, as an event is
RewardsBranch_EveryBucket(st, p) ==
    LET record == st.heap[p]
    IN  UpdateBuckets(st, DOMAIN st.dict, record,
                      [k \in DOMAIN st.dict |-> DictGet(record.rewards, k, 1)])

\* worker.py:105-108
RewardsBranch(st, p) ==
    LET record == st.heap[p]
    IN  UpdateBuckets(st, DOMAIN record.rewards, record, record.rewards)

\* the default of a decision's reward used for an event without a value
EventReward_WrongDefault(record) ==
    Get(Get(record.properties, <<>>), DEFAULT_REWARD_VALUE)

\* worker.py:111-112
EventReward(record) ==
    Get(Get(record.properties, <<>>), DEFAULT_EVENTS_REWARD_VALUE)

\* worker.py:110-115
EventBranch(st, p) ==
    LET record == st.heap[p]
        reward == EventReward(record)
    IN  UpdateBuckets(st, DOMAIN st.dict, record,
                      [k \in DOMAIN st.dict |-> reward])

\* worker.py:117-118
InvalidType(st) == [st EXCEPT !.raised = TRUE]

\* worker.py:98-118
Iterate(st, p) ==
    LET type == st.heap[p].type
    IN  CASE type = "decision" -> DecisionBranch(st, p)
          [] type = "rewards"  -> RewardsBranch(st, p)
          [] type = "event"    -> EventBranch(st, p)
          [] OTHER             -> InvalidType(st)

\* worker.py:120: the returned dict, each bucket a list of record objects
Returned(heap, dict) ==
    [k \in DOMAIN dict |-> [i \in 1..Len(dict[k]) |-> heap[dict[k][i]]]]

(***************************************************************************)
(* assign_rewards_to_decisions as worker() calls it: the whole for loop.   *)
(* The result is the returned dict, or the InvalidType the loop raised.    *)
(***************************************************************************)
RECURSIVE ForLoop(_, _)
ForLoop(st, p) ==
    IF st.raised \/ p > Len(st.heap) THEN st ELSE ForLoop(Iterate(st, p), p + 1)

assign_rewards_to_decisions(list) ==
    LET st == ForLoop([heap |-> list, dict |-> EmptyDict, raised |-> FALSE], 1)
    IN  [raised |-> st.raised, value |-> Returned(st.heap, st.dict)]

(***************************************************************************)
(* Part II: the shard planner and the worker driver.                       *)
(*                                                                         *)
(* mmh3.hash(key, signed=False) is MurmurHash3_x86_32 with seed 0.  A      *)
(* 32-bit word is kept as two 16-bit halves [hi, lo], so that no product   *)
(* leaves the range of the checker's integers.  The key is d.name[:2], at  *)
(* most two ASCII characters: the hash has no 4-byte block to mix, only    *)
(* the tail and the finalizer.                                             *)
(***************************************************************************)
Ord == [a |-> 97, b |-> 98, c |-> 99]

RECURSIVE Xor(_, _)
Xor(x, y) ==
    IF x = 0 THEN y
    ELSE IF y = 0 THEN x
    ELSE ((x + y) % 2) + 2 * Xor(x \div 2, y \div 2)

WXor(v, w) == [hi |-> Xor(v.hi, w.hi), lo |-> Xor(v.lo, w.lo)]

\* (x * y) mod 2^16 for 16-bit x and y
MulMod16(x, y) == ((x * (y % 256)) + ((x * (y \div 256)) % 256) * 256) % 65536

\* (v * w) mod 2^32
WMul(v, w) ==
    LET p0 == v.lo * (w.lo % 256)
        p1 == v.lo * (w.lo \div 256)
        s == p0 + (p1 % 256) * 256
        carry == s \div 65536 + p1 \div 256
    IN  [hi |-> (carry + MulMod16(v.hi, w.lo) + MulMod16(v.lo, w.hi)) % 65536,
         lo |-> s % 65536]

Rotr1(w) == [hi |-> w.hi \div 2 + (w.lo % 2) * 32768,
             lo |-> w.lo \div 2 + (w.hi % 2) * 32768]

\* ROTL32(w, 15): the halves swapped, then one bit to the right
Rotl15(w) == Rotr1([hi |-> w.lo, lo |-> w.hi])

Shr16(w) == [hi |-> 0, lo |-> w.hi]

Shr13(w) == [hi |-> w.hi \div 8192, lo |-> (w.hi % 8192) * 8 + w.lo \div 8192]

\* 0xcc9e2d51, 0x1b873593, 0x85ebca6b, 0xc2b2ae35
MurmurC1 == [hi |-> 52382, lo |-> 11601]
MurmurC2 == [hi |-> 7047, lo |-> 13715]
MurmurF1 == [hi |-> 34283, lo |-> 51819]
MurmurF2 == [hi |-> 49842, lo |-> 44597]

fmix32(h) ==
    LET h1 == WXor(h, Shr16(h))
        h2 == WMul(h1, MurmurF1)
        h3 == WXor(h2, Shr13(h2))
        h4 == WMul(h3, MurmurF2)
    IN  WXor(h4, Shr16(h4))

\* mmh3.hash(key, signed=False) for a key of at most three characters
mmh3_hash(key) ==
    LET byte(i) == IF i <= Len(key) THEN Ord[key[i]] ELSE 0
        k1 == [hi |-> byte(3), lo |-> byte(1) + 256 * byte(2)]
        h1 == IF Len(key) = 0 THEN [hi |-> 0, lo |-> 0]
              ELSE WMul(Rotl15(WMul(k1, MurmurC1)), MurmurC2)
    IN  fmix32(WXor(h1, [hi |-> 0, lo |-> Len(key)]))

\* directory_int % node_count
WMod(w, n) == ((w.hi % n) * (65536 % n) + (w.lo % n)) % n

\* d.name[:2]
Prefix2(name) == SubSeq(name, 1, IF Len(name) < 2 THEN Len(name) ELSE 2)

\* The order in which the filesystem lists a set of names: some fixed order
RECURSIVE Listing(_)
Listing(S) ==
    IF S = {} THEN <<>>
    ELSE LET x == CHOOSE y \in S : TRUE IN <<x>> \o Listing(S \ {x})

Range(list) == {list[i] : i \in DOMAIN list}

\* the node ids taken as one-based
Owns_OneBased(name, node_id, node_count) ==
    WMod(mmh3_hash(Prefix2(name)), node_count) = node_id + 1

\* every directory taken by every node
Owns_Always(name, node_id, node_count) == TRUE

\* worker.py:176-177
Owns(name, node_id, node_count) ==
    WMod(mmh3_hash(Prefix2(name)), node_count) = node_id

\* worker.py:160-180; `root` maps each entry of input_dir to d.is_dir()
identify_dirs_to_process(root, node_id, node_count) ==
    SelectSeq(Listing(DOMAIN root),
              LAMBDA d : root[d] /\ Owns(d, node_id, node_count))

(***************************************************************************)
(* The file trees.  A tree maps a directory name to its files, a file name *)
(* [stem, ext] to the file.  An input file is [mtime, content], an output  *)
(* file [mtime, data].                                                     *)
(***************************************************************************)
InputName(stem) == [stem |-> stem, ext |-> "jsonl"]

\* OUTPUT_FILENAME.format(input_file.name): X.jsonl gives X.jsonl.gz
OUTPUT_FILENAME(name) == [stem |-> name.stem, ext |-> "jsonl.gz"]

\* utils.name_no_ext: the name without its .jsonl or .jsonl.gz suffix
name_no_ext(name) == name.stem

\* Path.glob('*.' + ext)
glob(dir, ext) == {n \in DOMAIN dir : n.ext = ext}

\* the comparison written with >=
Stale_OrEqual(in_mtime, out_mtime) == in_mtime >= out_mtime

\* worker.py:219
Stale(in_mtime, out_mtime) == in_mtime > out_mtime

\* an input file without output file passed over
ToProcess_MissingSkipped(d, name, in, out) ==
    LET output_files == {o \in glob(out[d], "jsonl.gz") : name_no_ext(o) = name_no_ext(name)}
    IN  IF output_files = {}
        THEN FALSE
        ELSE LET f_out == CHOOSE o \in output_files : TRUE
             IN  Stale(in[d][name].mtime, out[d][f_out].mtime)

\* worker.py:204-221: is the input file `name` of directory d to be processed
ToProcess(d, name, in, out) ==
    LET output_files == {o \in glob(out[d], "jsonl.gz") : name_no_ext(o) = name_no_ext(name)}
    IN  IF output_files = {}
        THEN TRUE
        ELSE LET f_out == CHOOSE o \in output_files : TRUE
             IN  /\ name_no_ext(name) = name_no_ext(f_out)
                 /\ Stale(in[d][name].mtime, out[d][f_out].mtime)

\* a directory without output directory passed over
FilesOfDir_MissingDirSkipped(d, in, out) ==
    LET paths == [i \in DOMAIN Listing(glob(in[d], "jsonl")) |->
                     [dir |-> d, name |-> Listing(glob(in[d], "jsonl"))[i]]]
    IN  IF d \notin DOMAIN out
        THEN <<>>
        ELSE SelectSeq(paths, LAMBDA f : ToProcess(d, f.name, in, out))

\* worker.py:195-221: the files of one directory
FilesOfDir(d, in, out) ==
    LET paths == [i \in DOMAIN Listing(glob(in[d], "jsonl")) |->
                     [dir |-> d, name |-> Listing(glob(in[d], "jsonl"))[i]]]
    IN  IF d \notin DOMAIN out
        THEN paths
        ELSE SelectSeq(paths, LAMBDA f : ToProcess(d, f.name, in, out))

\* worker.py:183-223
RECURSIVE identify_files_to_process(_, _, _)
identify_files_to_process(dirs, in, out) ==
    IF dirs = <<>> THEN <<>>
    ELSE FilesOfDir(Head(dirs), in, out) \o identify_files_to_process(Tail(dirs), in, out)

\* the test without its `not`
Orphan_Inverted(input_dir, output_name) ==
    \E n \in glob(input_dir, "jsonl") : name_no_ext(n) = name_no_ext(output_name)

\* worker.py:266-268: no input file has the stem of the output file
Orphan(input_dir, output_name) ==
    ~ \E n \in glob(input_dir, "jsonl") : name_no_ext(n) = name_no_ext(output_name)

\* the directories without input directory left in place
delete_output_files_KeepDirs(out, in, delete_all) ==
    IF delete_all
    THEN EmptyDict
    ELSE [d \in DOMAIN out |->
            IF d \notin DOMAIN in THEN out[d]
            ELSE [n \in {o \in DOMAIN out[d] : ~(o.ext = "jsonl.gz" /\ Orphan(in[d], o))}
                    |-> out[d][n]]]

\* worker.py:226-275: the output tree that delete_output_files leaves
delete_output_files(out, in, delete_all) ==
    IF delete_all
    THEN EmptyDict
    ELSE [d \in {o \in DOMAIN out : o \in DOMAIN in} |->
            [n \in {o \in DOMAIN out[d] : ~(o.ext = "jsonl.gz" /\ Orphan(in[d], o))}
                |-> out[d][n]]]

\* The paths of the files of a tree
Paths(tree) == UNION { {[dir |-> d, name |-> n] : n \in DOMAIN tree[d]} : d \in DOMAIN tree }

\* utils.load_sorted_records: the records of the file, sorted by timestamp,
\* records of one timestamp in their order in the file
RECURSIVE InsertSorted(_, _)
InsertSorted(list, record) ==
    IF list = <<>> THEN <<record>>
    ELSE IF list[Len(list)].timestamp <= record.timestamp
         THEN Append(list, record)
         ELSE Append(InsertSorted(SubSeq(list, 1, Len(list) - 1), record), list[Len(list)])

RECURSIVE SortFrom(_, _, _)
SortFrom(lines, i, sorted) ==
    IF i > Len(lines) THEN sorted
    ELSE SortFrom(lines, i + 1, InsertSorted(sorted, lines[i]))

load_sorted_records(lines) == SortFrom(lines, 1, <<>>)

\* worker.py:123-150: the output tree after the file was written at time `now`
gzip_records(out, input_file, rewarded_records, now) ==
    LET output_subdir == input_file.dir
        dir == IF output_subdir \in DOMAIN out THEN out[output_subdir] ELSE EmptyDict
        output_file == OUTPUT_FILENAME(input_file.name)
        written == [mtime |-> now, data |-> rewarded_records]
    IN  DictSet(out, output_subdir, DictSet(dir, output_file, written))

(***************************************************************************)
(* The three parts of the program are checked apart: each specification    *)
(* runs one part and leaves the variables of the others at rest.           *)
(***************************************************************************)
\* no call of update_listeners is under way
NoScan == [keys |-> <<>>, key |-> "", start |-> <<>>, listeners |-> <<>>, i |-> 0,
           visited |-> <<>>, reward |-> 0]

EngineIdle ==
    /\ window = 1
    /\ input = <<>>
    /\ records = <<>>
    /\ buckets = EmptyDict
    /\ pos = 1
    /\ pc = "idle"
    /\ call = 0
    /\ first = EmptyDict
    /\ scan = NoScan

ShardIdle ==
    /\ entries = EmptyDict
    /\ owned = EmptyDict

LoaderIdle ==
    /\ file_group = <<>>
    /\ file_pos = 1
    /\ loaded = <<>>
    /\ message_ids = {}
    /\ stats = EmptyDict
    /\ unrecoverable = {}
    /\ lpc = "off"
    /\ threads = <<>>

FilterIdle ==
    /\ hashed_history_id = ""
    /\ candidates = <<>>
    /\ results = <<>>
    /\ history_id = <<>>
    /\ record_pos = 1
    /\ fpc = "off"

WorkerIdle ==
    /\ inFS = EmptyDict
    /\ outFS = EmptyDict
    /\ clock = 0
    /\ env = [node_id |-> 0, node_count |-> 1, reprocess_all |-> FALSE]
    /\ wpc = "off"
    /\ dirs_to_process = <<>>
    /\ files_to_process = <<>>
    /\ next_file = 1
    /\ SIGTERM = FALSE
    /\ log = EmptyDict
    /\ nodes = <<>>

(***************************************************************************)
(* The record lists the engine is applied to.                              *)
(***************************************************************************)
Record(type, reward_key, rewards, properties) ==
    [type |-> type, timestamp |-> 0, reward_key |-> reward_key,
     rewards |-> rewards, properties |-> properties, reward |-> <<>>]

Kinds ==
    { Record("decision", <<>>, <<>>, <<>>),
      Record("decision", <<"a">>, <<>>, <<>>),
      Record("rewards", <<>>, [k \in {"a", "b"} |-> IF k = "a" THEN 1 ELSE 2], <<>>),
      Record("rewards", <<>>, [k \in {"a", "reward"} |-> IF k = "a" THEN 2 ELSE 1], <<>>),
      Record("event", <<>>, <<>>, <<>>),
      Record("event", <<>>, <<>>, << <<>> >>),
      Record("event", <<>>, <<>>, << <<3>> >>),
      Record("other", <<>>, <<>>, <<>>) }

\* The non-decreasing timestamp sequences of length n that start at `from` or later
RECURSIVE SortedTimes(_, _)
SortedTimes(n, from) ==
    IF n = 0 THEN { <<>> }
    ELSE UNION { { <<t>> \o s : s \in SortedTimes(n - 1, t) } : t \in from..MaxTime }

EngineInit ==
    /\ ShardIdle
    /\ WorkerIdle
    /\ LoaderIdle
    /\ FilterIdle
    /\ window \in Windows
    /\ \E n \in 0..MaxLen :
         \E kinds \in [1..n -> Kinds] :
           \E times \in SortedTimes(n, 0) :
             input = [i \in 1..n |-> [kinds[i] EXCEPT !.timestamp = times[i]]]
    /\ records = input
    /\ buckets = EmptyDict
    /\ pos = 1
    /\ pc = "loop"
    /\ call = 1
    /\ first = EmptyDict
    /\ scan = NoScan

Engine == [heap |-> records, dict |-> buckets, raised |-> FALSE]

\* worker.py:99-103: the for loop meets a decision record
OnDecision ==
    /\ pc = "loop"
    /\ pos <= Len(records)
    /\ records[pos].type = "decision"
    /\ records' = Iterate(Engine, pos).heap
    /\ buckets' = Iterate(Engine, pos).dict
    /\ pos' = pos + 1
    /\ UNCHANGED <<window, input, pc, call, first, scan>>
    /\ UNCHANGED <<shardVars, workerVars, loaderVars, filterVars>>

\* worker.py:105-108: the for loop meets a rewards record
OnRewards ==
    /\ pc = "loop"
    /\ pos <= Len(records)
    /\ records[pos].type = "rewards"
    /\ records' = Iterate(Engine, pos).heap
    /\ buckets' = Iterate(Engine, pos).dict
    /\ pos' = pos + 1
    /\ UNCHANGED <<window, input, pc, call, first, scan>>
    /\ UNCHANGED <<shardVars, workerVars, loaderVars, filterVars>>

\* worker.py:110-115: the for loop meets an event record
OnEvent ==
    /\ pc = "loop"
    /\ pos <= Len(records)
    /\ records[pos].type = "event"
    /\ records' = Iterate(Engine, pos).heap
    /\ buckets' = Iterate(Engine, pos).dict
    /\ pos' = pos + 1
    /\ UNCHANGED <<window, input, pc, call, first, scan>>
    /\ UNCHANGED <<shardVars, workerVars, loaderVars, filterVars>>

\* worker.py:117-118: the exception leaves the function; what was updated stays
OnInvalidType ==
    /\ pc = "loop"
    /\ pos <= Len(records)
    /\ records[pos].type \notin {"decision", "rewards", "event"}
    /\ Iterate(Engine, pos).raised
    /\ pc' = "raised"
    /\ UNCHANGED <<window, input, records, buckets, pos, call, first, scan>>
    /\ UNCHANGED <<shardVars, workerVars, loaderVars, filterVars>>

\* worker.py:120
Return ==
    /\ pc = "loop"
    /\ pos > Len(records)
    /\ pc' = "returned"
    /\ first' = IF call = 1 THEN Returned(records, buckets) ELSE first
    /\ UNCHANGED <<window, input, records, buckets, pos, call, scan>>
    /\ UNCHANGED <<shardVars, workerVars, loaderVars, filterVars>>

\* A second application of assign_rewards_to_decisions to the same list
Reapply ==
    /\ pc = "returned"
    /\ call = 1
    /\ call' = 2
    /\ buckets' = EmptyDict
    /\ pos' = 1
    /\ pc' = "loop"
    /\ UNCHANGED <<window, input, records, first, scan>>
    /\ UNCHANGED <<shardVars, workerVars, loaderVars, filterVars>>

EngineNext ==
    \/ OnDecision
    \/ OnRewards
    \/ OnEvent
    \/ OnInvalidType
    \/ Return
    \/ Reapply

Spec == EngineInit /\ [][EngineNext]_vars

(***************************************************************************)
(* The shard planner: the nodes of one job array, each calling             *)
(* identify_dirs_to_process on the same input root.                        *)
(***************************************************************************)
DirNames == { <<"a", "a">>, <<"b", "b">>, <<"c", "c">>, <<"a", "a", "b">> }

\* Every entry of the input root is a directory or a plain file
Roots == UNION { [S -> BOOLEAN] : S \in SUBSET DirNames }

ShardInit ==
    /\ EngineIdle
    /\ WorkerIdle
    /\ LoaderIdle
    /\ FilterIdle
    /\ entries \in Roots
    /\ \E n \in 1..MaxNodes : owned = [node_id \in 0..(n - 1) |-> <<>>]

NodeCount == Cardinality(DOMAIN owned)

\* worker.py:290-294: a node of the array identifies its directories
ShardIdentify ==
    /\ \E node_id \in DOMAIN owned :
         /\ Len(owned[node_id]) < MaxCalls
         /\ owned' = [owned EXCEPT ![node_id] =
                        Append(@, identify_dirs_to_process(entries, node_id, NodeCount))]
    /\ UNCHANGED <<entries, engineVars, workerVars, loaderVars, filterVars>>

ShardNext == ShardIdentify

SpecShard == ShardInit /\ [][ShardNext]_vars

(***************************************************************************)
(* The worker driver: runs of worker() of one node, one after the other,   *)
(* on a file tree that the transport changes between the runs.             *)
(***************************************************************************)
WorkerDirs == { <<"a", "a">>, <<"c", "c">> }

WorkerNodeCounts == {1, 2}

StemsOf(d) == IF d = <<"a", "a">> THEN {"x", "y"} ELSE {"x"}

\* The records of an input file, as they stand in the file
Lines(content) ==
    IF content = "good"
    THEN << [Record("event", <<>>, <<>>, << <<3>> >>) EXCEPT !.timestamp = 1],
            Record("decision", <<>>, <<>>, <<>>) >>
    ELSE << Record("decision", <<>>, <<>>, <<>>),
            [Record("other", <<>>, <<>>, <<>>) EXCEPT !.timestamp = 1] >>

Contents == {"good"}

InputDirs(d) ==
    UNION { [{InputName(s) : s \in S} -> [mtime : {1}, content : Contents]]
              : S \in SUBSET StemsOf(d) }

OutputDirs(d) ==
    UNION { [{OUTPUT_FILENAME(InputName(s)) : s \in S} -> [mtime : {1}, data : {EmptyDict}]]
              : S \in SUBSET StemsOf(d) }

\* The trees whose directory d is one of dirs[d]
Trees(dirs) ==
    UNION { {t \in [D -> UNION {dirs[d] : d \in D}] : \A d \in D : t[d] \in dirs[d]}
              : D \in SUBSET WorkerDirs }

Running == wpc \in {"started", "dirs", "pruned", "loop", "unit"}

\* every input file has an output file that is not older
UpToDate(in, out) ==
    \A d \in DOMAIN in : \A n \in glob(in[d], "jsonl") :
        /\ d \in DOMAIN out
        /\ OUTPUT_FILENAME(n) \in DOMAIN out[d]
        /\ out[d][OUTPUT_FILENAME(n)].mtime >= in[d][n].mtime

WorkerInit ==
    /\ EngineIdle
    /\ ShardIdle
    /\ LoaderIdle
    /\ FilterIdle
    /\ inFS \in Trees([d \in WorkerDirs |-> InputDirs(d)])
    /\ outFS \in Trees([d \in WorkerDirs |-> OutputDirs(d)])
    /\ clock = 1
    /\ \E n \in WorkerNodeCounts : \E i \in 0..(n - 1) :
         env = [node_id |-> i, node_count |-> n, reprocess_all |-> FALSE]
    /\ wpc = "idle"
    /\ dirs_to_process = <<>>
    /\ files_to_process = <<>>
    /\ next_file = 1
    /\ SIGTERM = FALSE
    /\ log = [written |-> {}, deleted |-> {}, previous |-> "none", previous_all |-> FALSE,
              touched |-> {}, pending |-> {}, fresh |-> FALSE]
    /\ nodes = <<>>

\* the flag never looked at
handle_signals_Never(flag) == FALSE

\* worker.py:323-326: does handle_signals leave the process
handle_signals(flag) == flag

\* worker.py:326, 312: the exit status of a process that has ended
ExitStatus ==
    CASE wpc \in {"finished", "exited"} -> 0
      [] wpc = "crashed" -> 1
      [] wpc = "killed" -> 137
      [] OTHER -> -1

\* worker.py:336-339, 290-292: the process starts and reads its environment
Start ==
    /\ ~Running
    /\ \E reprocess_all \in BOOLEAN : env' = [env EXCEPT !.reprocess_all = reprocess_all]
    /\ wpc' = "started"
    /\ SIGTERM' = FALSE
    /\ dirs_to_process' = <<>>
    /\ files_to_process' = <<>>
    /\ next_file' = 1
    /\ log' = [log EXCEPT !.written = {}, !.deleted = {}, !.previous = wpc,
                          !.previous_all = env.reprocess_all,
                          !.touched = log.pending, !.pending = {}]
    /\ UNCHANGED <<inFS, outFS, clock, engineVars, shardVars, loaderVars, filterVars>>
    /\ UNCHANGED nodes

\* worker.py:294
IdentifyDirs ==
    /\ wpc = "started"
    /\ dirs_to_process' =
         identify_dirs_to_process([d \in DOMAIN inFS |-> TRUE], env.node_id, env.node_count)
    /\ wpc' = "dirs"
    /\ UNCHANGED <<inFS, outFS, clock, env, files_to_process, next_file, SIGTERM, log,
                   engineVars, shardVars, loaderVars, filterVars>>
    /\ UNCHANGED nodes

\* worker.py:295
DeleteOutputFiles ==
    /\ wpc = "dirs"
    /\ outFS' = delete_output_files(outFS, inFS, env.reprocess_all)
    /\ log' = [log EXCEPT !.deleted = Paths(outFS) \ Paths(outFS')]
    /\ wpc' = "pruned"
    /\ UNCHANGED <<inFS, clock, env, dirs_to_process, files_to_process, next_file, SIGTERM,
                   engineVars, shardVars, loaderVars, filterVars>>
    /\ UNCHANGED nodes

\* worker.py:296
IdentifyFiles ==
    /\ wpc = "pruned"
    /\ files_to_process' = identify_files_to_process(dirs_to_process, inFS, outFS)
    /\ next_file' = 1
    /\ wpc' = "loop"
    /\ UNCHANGED <<inFS, outFS, clock, env, dirs_to_process, SIGTERM, log,
                   engineVars, shardVars, loaderVars, filterVars>>
    /\ UNCHANGED nodes

\* worker.py:306-310: one unit of the for loop, with no signal pending.  The
\* write takes place at the time of the filesystem, which may have advanced.
ProcessFile ==
    /\ wpc = "loop"
    /\ next_file <= Len(files_to_process)
    /\ ~handle_signals(SIGTERM)
    /\ LET f == files_to_process[next_file]
           sorted_records == load_sorted_records(Lines(inFS[f.dir][f.name].content))
           rewarded_records == assign_rewards_to_decisions(sorted_records)
       IN  IF rewarded_records.raised
           THEN /\ wpc' = "crashed"
                /\ UNCHANGED <<outFS, clock, next_file, log>>
           ELSE /\ \E now \in {clock, clock + 1} :
                     /\ now <= MaxClock
                     /\ clock' = now
                     /\ outFS' = gzip_records(outFS, f, rewarded_records.value, now)
                /\ log' = [log EXCEPT !.written = @ \cup {f}]
                /\ next_file' = next_file + 1
                /\ wpc' = wpc
    /\ UNCHANGED <<inFS, env, dirs_to_process, files_to_process, SIGTERM, engineVars, shardVars, loaderVars, filterVars>>
    /\ UNCHANGED nodes

\* worker.py:307, 323-326: handle_signals finds the flag set and leaves
ExitOnSignal ==
    /\ wpc = "loop"
    /\ next_file <= Len(files_to_process)
    /\ handle_signals(SIGTERM)
    /\ wpc' = "exited"
    /\ UNCHANGED <<inFS, outFS, clock, env, dirs_to_process, files_to_process, next_file,
                   SIGTERM, log, engineVars, shardVars, loaderVars, filterVars>>
    /\ UNCHANGED nodes

\* worker.py:312: the for loop is over
Finish ==
    /\ wpc = "loop"
    /\ next_file > Len(files_to_process)
    /\ wpc' = "finished"
    /\ UNCHANGED <<inFS, outFS, clock, env, dirs_to_process, files_to_process, next_file,
                   SIGTERM, log, engineVars, shardVars, loaderVars, filterVars>>
    /\ UNCHANGED nodes

\* worker.py:329-333: SIGTERM or SIGINT reaches the running process
Signal ==
    /\ Running
    /\ ~SIGTERM
    /\ SIGTERM' = TRUE
    /\ UNCHANGED <<inFS, outFS, clock, env, wpc, dirs_to_process, files_to_process,
                   next_file, log, engineVars, shardVars, loaderVars, filterVars>>
    /\ UNCHANGED nodes

\* Between two runs the transport rewrites an input file: its mtime becomes
\* the time of the filesystem.
Touch ==
    /\ ~Running
    /\ \E d \in DOMAIN inFS : \E n \in DOMAIN inFS[d] : \E now \in {clock, clock + 1} :
         /\ now <= MaxClock
         /\ now > inFS[d][n].mtime
         /\ clock' = now
         /\ inFS' = [inFS EXCEPT ![d][n].mtime = now]
         /\ log' = [log EXCEPT !.pending = @ \cup {[dir |-> d, name |-> n]},
                               !.fresh = IF log.pending = {} THEN UpToDate(inFS, outFS) ELSE @]
    /\ UNCHANGED <<outFS, env, wpc, dirs_to_process, files_to_process, next_file, SIGTERM,
                   engineVars, shardVars, loaderVars, filterVars>>
    /\ UNCHANGED nodes

WorkerNext ==
    \/ Start
    \/ IdentifyDirs
    \/ DeleteOutputFiles
    \/ IdentifyFiles
    \/ ProcessFile
    \/ ExitOnSignal
    \/ Finish
    \/ Signal
    \/ Touch

SpecWorker == WorkerInit /\ [][WorkerNext]_vars

(***************************************************************************)
(* The worker driver under faults.  A unit of the for loop of worker() is  *)
(* taken in two steps, so that a signal, a kill of the process or a write  *)
(* error can fall between the read of the input file and the end of the    *)
(* write.  Input files may hold a record of an unknown type.               *)
(***************************************************************************)
FaultContents == {"good", "bad"}

FaultInputDirs(d) ==
    UNION { [{InputName(s) : s \in S} -> [mtime : {1}, content : FaultContents]]
              : S \in SUBSET StemsOf(d) }

FaultOutputDirs(d) ==
    UNION { [{OUTPUT_FILENAME(InputName(s)) : s \in S} -> [mtime : {0, 1}, data : {EmptyDict}]]
              : S \in SUBSET StemsOf(d) }

FaultInit ==
    /\ EngineIdle
    /\ ShardIdle
    /\ LoaderIdle
    /\ FilterIdle
    /\ inFS \in Trees([d \in WorkerDirs |-> FaultInputDirs(d)])
    /\ outFS \in Trees([d \in WorkerDirs |-> FaultOutputDirs(d)])
    /\ clock = 1
    /\ \E n \in WorkerNodeCounts : \E i \in 0..(n - 1) :
         env = [node_id |-> i, node_count |-> n, reprocess_all |-> FALSE]
    /\ wpc = "idle"
    /\ dirs_to_process = <<>>
    /\ files_to_process = <<>>
    /\ next_file = 1
    /\ SIGTERM = FALSE
    /\ log = [written |-> {}, deleted |-> {}, previous |-> "none", previous_all |-> FALSE,
              touched |-> {}, pending |-> {}, fresh |-> FALSE,
              partial |-> {}, failed |-> {}, flagged |-> 0]
    /\ nodes = <<>>

\* what the unit of input file f hands to gzip_records (worker.py:308-309)
Rewarded(f) ==
    assign_rewards_to_decisions(load_sorted_records(Lines(inFS[f.dir][f.name].content)))

\* gzip.open(mode='wt') has created or truncated the file and nothing more
\* has reached it
Truncated == EmptyDict

\* worker.py:307-309: handle_signals finds no flag, the file is read and the
\* rewards are assigned; InvalidType leaves worker() as an exception
BeginUnit ==
    /\ wpc = "loop"
    /\ next_file <= Len(files_to_process)
    /\ ~handle_signals(SIGTERM)
    /\ wpc' = IF Rewarded(files_to_process[next_file]).raised THEN "crashed" ELSE "unit"
    /\ log' = IF Rewarded(files_to_process[next_file]).raised
              THEN [log EXCEPT !.failed = {files_to_process[next_file]}]
              ELSE log
    /\ UNCHANGED <<inFS, outFS, clock, env, dirs_to_process, files_to_process, next_file,
                   SIGTERM, engineVars, shardVars, loaderVars, filterVars>>
    /\ UNCHANGED nodes

\* worker.py:310: gzip_records returns
WriteUnit ==
    /\ wpc = "unit"
    /\ \E now \in {clock, clock + 1} :
         /\ now <= MaxClock
         /\ clock' = now
         /\ outFS' = gzip_records(outFS, files_to_process[next_file],
                                  Rewarded(files_to_process[next_file]).value, now)
    /\ log' = [log EXCEPT !.written = @ \cup {files_to_process[next_file]}]
    /\ next_file' = next_file + 1
    /\ wpc' = "loop"
    /\ UNCHANGED <<inFS, env, dirs_to_process, files_to_process, SIGTERM,
                   engineVars, shardVars, loaderVars, filterVars>>
    /\ UNCHANGED nodes

\* worker.py:141-157, 310: the write raises; gzip_records logs and raises
\* again, and worker() has no handler.  The file was not opened, or it was
\* opened and is left truncated.
WriteFails ==
    /\ wpc = "unit"
    /\ \/ UNCHANGED <<outFS, clock>>
       \/ \E now \in {clock, clock + 1} :
            /\ now <= MaxClock
            /\ clock' = now
            /\ outFS' = gzip_records(outFS, files_to_process[next_file], Truncated, now)
    /\ log' = [log EXCEPT !.failed = {files_to_process[next_file]}]
    /\ wpc' = "crashed"
    /\ UNCHANGED <<inFS, env, dirs_to_process, files_to_process, next_file, SIGTERM,
                   engineVars, shardVars, loaderVars, filterVars>>
    /\ UNCHANGED nodes

\* The process is killed inside gzip_records, after gzip.open (worker.py:147)
Kill ==
    /\ wpc = "unit"
    /\ \E now \in {clock, clock + 1} :
         /\ now <= MaxClock
         /\ clock' = now
         /\ outFS' = gzip_records(outFS, files_to_process[next_file], Truncated, now)
    /\ log' = [log EXCEPT !.partial = {files_to_process[next_file]}]
    /\ wpc' = "killed"
    /\ UNCHANGED <<inFS, env, dirs_to_process, files_to_process, next_file, SIGTERM,
                   engineVars, shardVars, loaderVars, filterVars>>
    /\ UNCHANGED nodes

\* worker.py:329-333: the signal reaches the process; the history keeps the
\* position of the unit under way at that moment, 0 between units
FlagSet ==
    /\ Running
    /\ ~SIGTERM
    /\ SIGTERM' = TRUE
    /\ log' = [log EXCEPT !.flagged = IF wpc = "unit" THEN next_file ELSE 0]
    /\ UNCHANGED <<inFS, outFS, clock, env, wpc, dirs_to_process, files_to_process,
                   next_file, engineVars, shardVars, loaderVars, filterVars>>
    /\ UNCHANGED nodes

FaultNext ==
    \/ Start
    \/ IdentifyDirs
    \/ DeleteOutputFiles
    \/ IdentifyFiles
    \/ BeginUnit
    \/ WriteUnit
    \/ WriteFails
    \/ Kill
    \/ FlagSet
    \/ ExitOnSignal
    \/ Finish

SpecFaults == FaultInit /\ [][FaultNext]_vars

(***************************************************************************)
(* The nodes of one job array: N processes, node ids 0..N-1, the same      *)
(* environment but for the index, on the one input tree and the one output *)
(* tree.  Each node runs worker() once, to its end, with no signal and no  *)
(* error; the steps of the nodes interleave in every way, one node after   *)
(* the other included.  The input tree does not change during the job.     *)
(***************************************************************************)
\* any output tree: outputs older than their input or not, with or without
\* input
JobOutputDirs(d) ==
    UNION { [{OUTPUT_FILENAME(InputName(s)) : s \in S} -> [mtime : {0, 1}, data : {EmptyDict}]]
              : S \in SUBSET StemsOf(d) }

NodesInit ==
    /\ EngineIdle
    /\ ShardIdle
    /\ LoaderIdle
    /\ FilterIdle
    /\ inFS \in Trees([d \in WorkerDirs |-> InputDirs(d)])
    /\ outFS \in Trees([d \in WorkerDirs |-> JobOutputDirs(d)])
    /\ clock = 1
    /\ \E n \in WorkerNodeCounts : \E reprocess_all \in BOOLEAN :
         /\ env = [node_id |-> 0, node_count |-> n, reprocess_all |-> reprocess_all]
         /\ nodes = [node_id \in 0..(n - 1) |->
                        [wpc |-> "started", dirs_to_process |-> <<>>,
                         files_to_process |-> <<>>, next_file |-> 1]]
    /\ wpc = "off"
    /\ dirs_to_process = <<>>
    /\ files_to_process = <<>>
    /\ next_file = 1
    /\ SIGTERM = FALSE
    /\ log = [before |-> outFS]

\* worker.py:290-294
NodeIdentifyDirs ==
    \E node_id \in DOMAIN nodes :
        /\ nodes[node_id].wpc = "started"
        /\ nodes' = [nodes EXCEPT
                       ![node_id].dirs_to_process =
                           identify_dirs_to_process([d \in DOMAIN inFS |-> TRUE],
                                                    node_id, env.node_count),
                       ![node_id].wpc = "dirs"]
        /\ UNCHANGED <<inFS, outFS, clock, env, wpc, dirs_to_process, files_to_process,
                       next_file, SIGTERM, log, engineVars, shardVars, loaderVars, filterVars>>

\* worker.py:295
NodeDeleteOutputFiles ==
    \E node_id \in DOMAIN nodes :
        /\ nodes[node_id].wpc = "dirs"
        /\ outFS' = delete_output_files(outFS, inFS, env.reprocess_all)
        /\ nodes' = [nodes EXCEPT ![node_id].wpc = "pruned"]
        /\ UNCHANGED <<inFS, clock, env, wpc, dirs_to_process, files_to_process,
                       next_file, SIGTERM, log, engineVars, shardVars, loaderVars, filterVars>>

\* worker.py:296
NodeIdentifyFiles ==
    \E node_id \in DOMAIN nodes :
        /\ nodes[node_id].wpc = "pruned"
        /\ nodes' = [nodes EXCEPT
                       ![node_id].files_to_process =
                           identify_files_to_process(nodes[node_id].dirs_to_process,
                                                     inFS, outFS),
                       ![node_id].wpc = "loop"]
        /\ UNCHANGED <<inFS, outFS, clock, env, wpc, dirs_to_process, files_to_process,
                       next_file, SIGTERM, log, engineVars, shardVars, loaderVars, filterVars>>

\* worker.py:306-310: one unit of the for loop of a node
NodeProcessFile ==
    \E node_id \in DOMAIN nodes :
        /\ nodes[node_id].wpc = "loop"
        /\ nodes[node_id].next_file <= Len(nodes[node_id].files_to_process)
        /\ LET f == nodes[node_id].files_to_process[nodes[node_id].next_file]
               sorted_records == load_sorted_records(Lines(inFS[f.dir][f.name].content))
               rewarded_records == assign_rewards_to_decisions(sorted_records)
           IN  /\ ~rewarded_records.raised
               /\ \E now \in {clock, clock + 1} :
                    /\ now <= MaxClock
                    /\ clock' = now
                    /\ outFS' = gzip_records(outFS, f, rewarded_records.value, now)
        /\ nodes' = [nodes EXCEPT ![node_id].next_file = @ + 1]
        /\ UNCHANGED <<inFS, env, wpc, dirs_to_process, files_to_process,
                       next_file, SIGTERM, log, engineVars, shardVars, loaderVars, filterVars>>

\* worker.py:312
NodeFinish ==
    \E node_id \in DOMAIN nodes :
        /\ nodes[node_id].wpc = "loop"
        /\ nodes[node_id].next_file > Len(nodes[node_id].files_to_process)
        /\ nodes' = [nodes EXCEPT ![node_id].wpc = "finished"]
        /\ UNCHANGED <<inFS, outFS, clock, env, wpc, dirs_to_process, files_to_process,
                       next_file, SIGTERM, log, engineVars, shardVars, loaderVars, filterVars>>

NodesNext ==
    \/ NodeIdentifyDirs
    \/ NodeDeleteOutputFiles
    \/ NodeIdentifyFiles
    \/ NodeProcessFile
    \/ NodeFinish

SpecNodes == NodesInit /\ [][NodesNext]_vars

(***************************************************************************)
(* The for loop of worker() with the reward engine taken step by step: a   *)
(* call of update_listeners is a loop of its own, one step for every       *)
(* listener it visits.  The bucket is the very list the loop runs over, so *)
(* a deletion changes the list while the loop is under way.  What a file   *)
(* holds is known when the unit reads it.                                  *)
(***************************************************************************)
MaxUnits == 2       \* most files to process of a run
MaxScanLen == 3     \* longest record list of a unit

\* the window is 1: a record at the time of a listener is not beyond its
\* window, a record two units later is
ScanTimes == {0, 2}

ScanKinds ==
    { Record("decision", <<>>, <<>>, <<>>),
      Record("rewards", <<>>, [k \in {"a", "reward"} |-> IF k = "a" THEN 2 ELSE 1], <<>>),
      Record("event", <<>>, <<>>, <<>>),
      Record("other", <<>>, <<>>, <<>>) }

\* The non-decreasing sequences of n timestamps
SortedScanTimes(n) ==
    {times \in [1..n -> ScanTimes] : \A i, j \in 1..n : i <= j => times[i] <= times[j]}

\* what load_sorted_records can give for a file
UnitLists ==
    UNION { { [i \in 1..n |-> [kinds[i] EXCEPT !.timestamp = times[i]]]
                : kinds \in [1..n -> ScanKinds], times \in SortedScanTimes(n) }
            : n \in 0..MaxScanLen }

\* two listeners passed over at each step
ScanStep_Skip(i) == IF i >= 2 THEN i - 2 ELSE 0

\* worker.py:65: range(len(listeners)-1, -1, -1), the next index
ScanStep(i) == i - 1

\* worker.py:65: the first index of the loop; the model counts from 1
ScanFirst(listeners) == Len(listeners)

\* worker.py:106, 114: the (reward_key, reward) pairs the record is heard with
ScanRewards(record, dict) ==
    IF record.type = "event"
    THEN [k \in DOMAIN dict |-> EventReward(record)]
    ELSE record.rewards

TerminationInit ==
    /\ ShardIdle
    /\ LoaderIdle
    /\ FilterIdle
    /\ window = 1
    /\ input = <<>>
    /\ records = <<>>
    /\ buckets = EmptyDict
    /\ pos = 1
    /\ pc = "idle"
    /\ call = 0
    /\ first = EmptyDict
    /\ scan = NoScan
    /\ inFS = EmptyDict
    /\ outFS = EmptyDict
    /\ clock = 0
    /\ env = [node_id |-> 0, node_count |-> 1, reprocess_all |-> FALSE]
    /\ wpc = "loop"
    /\ dirs_to_process = << <<"a", "a">> >>
    /\ \E n \in 0..MaxUnits :
         files_to_process = [i \in 1..n |-> [dir |-> <<"a", "a">>, name |-> InputName(i)]]
    /\ next_file = 1
    /\ SIGTERM = FALSE
    /\ log = EmptyDict
    /\ nodes = <<>>

\* worker.py:306-309: the unit reads its file and calls the engine
ReadUnit ==
    /\ wpc = "loop"
    /\ next_file <= Len(files_to_process)
    /\ \E list \in UnitLists :
         /\ input' = list
         /\ records' = list
    /\ buckets' = EmptyDict
    /\ pos' = 1
    /\ pc' = "loop"
    /\ call' = call + 1
    /\ scan' = NoScan
    /\ wpc' = "unit"
    /\ UNCHANGED <<window, first, inFS, outFS, clock, env, dirs_to_process, files_to_process,
                   next_file, SIGTERM, log, shardVars, loaderVars, filterVars>>
    /\ UNCHANGED nodes

\* worker.py:99-103
EnrolDecision ==
    /\ wpc = "unit"
    /\ pc = "loop"
    /\ pos <= Len(records)
    /\ records[pos].type = "decision"
    /\ buckets' = DecisionBranch(Engine, pos).dict
    /\ pos' = pos + 1
    /\ UNCHANGED <<window, input, records, pc, call, first, scan,
                   shardVars, workerVars, loaderVars, filterVars>>

\* worker.py:106, 111-114: the loop over the reward keys begins
BeginScans ==
    /\ wpc = "unit"
    /\ pc = "loop"
    /\ pos <= Len(records)
    /\ records[pos].type \in {"rewards", "event"}
    /\ scan' = [NoScan EXCEPT !.keys = Listing(DOMAIN ScanRewards(records[pos], buckets))]
    /\ pc' = "keys"
    /\ UNCHANGED <<window, input, records, buckets, pos, call, first,
                   shardVars, workerVars, loaderVars, filterVars>>

\* worker.py:107-108, 115, 65: update_listeners is called on the bucket of
\* the next key, or on a new empty list when the key has none
CallUpdateListeners ==
    /\ pc = "keys"
    /\ scan.keys # <<>>
    /\ scan' = [keys |-> Tail(scan.keys),
                key |-> Head(scan.keys),
                start |-> DictGet(buckets, Head(scan.keys), <<>>),
                listeners |-> DictGet(buckets, Head(scan.keys), <<>>),
                i |-> ScanFirst(DictGet(buckets, Head(scan.keys), <<>>)),
                visited |-> <<>>,
                reward |-> ScanRewards(records[pos], buckets)[Head(scan.keys)]]
    /\ pc' = "scan"
    /\ UNCHANGED <<window, input, records, buckets, pos, call, first,
                   shardVars, workerVars, loaderVars, filterVars>>

\* worker.py:66-74: one pass of the loop of update_listeners
VisitListener ==
    /\ pc = "scan"
    /\ scan.i >= 1
    /\ LET ref == scan.listeners[scan.i]
           expired == Expired(records[ref].timestamp, records[pos].timestamp)
           listeners == IF expired THEN Delete(scan.listeners, scan.i) ELSE scan.listeners
       IN  /\ records' = IF expired THEN records
                         ELSE [records EXCEPT ![ref] = AddReward(records[ref], scan.reward)]
           /\ buckets' = IF scan.key \in DOMAIN buckets
                         THEN [buckets EXCEPT ![scan.key] = listeners]
                         ELSE buckets
           /\ scan' = [scan EXCEPT !.listeners = listeners,
                                   !.i = ScanStep(scan.i),
                                   !.visited = Append(scan.visited, ref)]
    /\ UNCHANGED <<window, input, pos, pc, call, first,
                   shardVars, workerVars, loaderVars, filterVars>>

\* worker.py:65: the range is exhausted, update_listeners returns
EndScan ==
    /\ pc = "scan"
    /\ scan.i < 1
    /\ pc' = "keys"
    /\ UNCHANGED <<window, input, records, buckets, pos, call, first, scan,
                   shardVars, workerVars, loaderVars, filterVars>>

\* worker.py:98: the loop over the reward keys is over, the next record
NextRecord ==
    /\ pc = "keys"
    /\ scan.keys = <<>>
    /\ pos' = pos + 1
    /\ pc' = "loop"
    /\ UNCHANGED <<window, input, records, buckets, call, first, scan,
                   shardVars, workerVars, loaderVars, filterVars>>

\* worker.py:117-118: InvalidType leaves the engine and worker()
RaiseInvalidType ==
    /\ wpc = "unit"
    /\ pc = "loop"
    /\ pos <= Len(records)
    /\ records[pos].type \notin {"decision", "rewards", "event"}
    /\ pc' = "raised"
    /\ wpc' = "crashed"
    /\ UNCHANGED <<window, input, records, buckets, pos, call, first, scan,
                   inFS, outFS, clock, env, dirs_to_process, files_to_process, next_file,
                   SIGTERM, log, shardVars, loaderVars, filterVars>>
    /\ UNCHANGED nodes

\* worker.py:120, 310, 306: the engine returns, gzip_records returns and the
\* for loop goes to its next file, where sorted_records and rewarded_records
\* are bound anew.  What the output tree holds has no part in the loops; it
\* is followed in the specifications of the worker driver.
ReturnUnit ==
    /\ wpc = "unit"
    /\ pc = "loop"
    /\ pos > Len(records)
    /\ pc' = "idle"
    /\ input' = <<>>
    /\ records' = <<>>
    /\ buckets' = EmptyDict
    /\ pos' = 1
    /\ scan' = NoScan
    /\ next_file' = next_file + 1
    /\ wpc' = "loop"
    /\ UNCHANGED <<window, call, first,
                   inFS, outFS, clock, env, dirs_to_process, files_to_process,
                   SIGTERM, log, shardVars, loaderVars, filterVars>>
    /\ UNCHANGED nodes

\* worker.py:120, 152-157, 310: the engine returns, gzip_records raises and
\* the exception leaves worker()
ReturnUnitWriteRaises ==
    /\ wpc = "unit"
    /\ pc = "loop"
    /\ pos > Len(records)
    /\ pc' = "returned"
    /\ wpc' = "crashed"
    /\ UNCHANGED <<window, input, records, buckets, pos, call, first, scan,
                   inFS, outFS, clock, env, dirs_to_process, files_to_process, next_file,
                   SIGTERM, log, shardVars, loaderVars, filterVars>>
    /\ UNCHANGED nodes

\* worker.py:312: the for loop of worker() is over
EndLoop ==
    /\ wpc = "loop"
    /\ next_file > Len(files_to_process)
    /\ wpc' = "finished"
    /\ UNCHANGED <<inFS, outFS, clock, env, dirs_to_process, files_to_process, next_file,
                   SIGTERM, log, engineVars, shardVars, loaderVars, filterVars>>
    /\ UNCHANGED nodes

TerminationNext ==
    \/ ReadUnit
    \/ EnrolDecision
    \/ BeginScans
    \/ CallUpdateListeners
    \/ VisitListener
    \/ EndScan
    \/ NextRecord
    \/ RaiseInvalidType
    \/ ReturnUnit
    \/ ReturnUnitWriteRaises
    \/ EndLoop

\* the process is one thread: as long as it has a step to take, it takes it
SpecTermination == TerminationInit /\ [][TerminationNext]_vars /\ WF_vars(TerminationNext)

(***************************************************************************)
(* Part III: the loader of assign_rewards/utils.py.                        *)
(*                                                                         *)
(* A file of a group is [name, gzip_ok, lines]: gzip_ok tells whether the  *)
(* gzip envelope decompresses.  A line is [json, timestamp, message_id,    *)
(* origin]: json tells whether json.loads accepts it, timestamp and        *)
(* message_id are the entries of the parsed dict (<<>> when the key is     *)
(* missing), origin stands for the rest of the record.                     *)
(***************************************************************************)
DUPLICATE_MESSAGE_ID_COUNT == "Duplicate Records"
RECORD_COUNT == "Unique Records"
UNRECOVERABLE_PARSE_ERROR_COUNT == "Unrecoverable Record Parse Errors"

Increment(counters, key, n) == [counters EXCEPT ![key] = @ + n]

\* dateutil.parser.parse: the datetime of a string, or ValueError
ValidDates == {"2021-10-07T07:24:06"}

dateutil_parse(string) ==
    IF string \in ValidDates
    THEN [raised |-> FALSE, value |-> <<2021, 10, 7, 7, 24, 6>>]
    ELSE [raised |-> TRUE, value |-> <<>>]

\* the loop left at a line that json.loads rejects
LoadLine_Abort(st, line) == [st EXCEPT !.raised = TRUE]

\* utils.py:64-76: one pass of the loop over the lines.  st is [records,
\* message_ids, stats, error, raised]; raised: an exception that neither
\* except clause of load_records catches (KeyError of a missing key).
LoadLine(st, line) ==
    IF ~line.json THEN [st EXCEPT !.error = TRUE]
    ELSE IF line.timestamp = <<>> THEN [st EXCEPT !.raised = TRUE]
    ELSE IF dateutil_parse(line.timestamp[1]).raised THEN [st EXCEPT !.error = TRUE]
    ELSE IF line.message_id = <<>> THEN [st EXCEPT !.raised = TRUE]
    ELSE IF line.message_id[1] \notin st.message_ids
         THEN [st EXCEPT !.message_ids = @ \cup {line.message_id[1]},
                         !.records = Append(@, [line EXCEPT !.timestamp =
                                         <<dateutil_parse(line.timestamp[1]).value>>])]
         ELSE [st EXCEPT !.stats = Increment(@, DUPLICATE_MESSAGE_ID_COUNT, 1)]

RECURSIVE LoadLines(_, _, _)
LoadLines(st, lines, i) ==
    IF st.raised \/ i > Len(lines) THEN st ELSE LoadLines(LoadLine(st, lines[i]), lines, i + 1)

\* nothing copied
copy_to_unrecoverable_Nothing(dir, file) == dir

\* utils.py:36-39
copy_to_unrecoverable(dir, file) == dir \cup {file.name}

\* utils.py:46-90: [raised, records, message_ids, stats, unrecoverable]
\* after load_records(file, message_ids, stats)
load_records(file, ids, counters, dir) ==
    LET start == [records |-> <<>>, message_ids |-> ids, stats |-> counters,
                  error |-> FALSE, raised |-> FALSE]
        st == IF file.gzip_ok
              THEN LoadLines(start, file.lines, 1)
              ELSE [start EXCEPT !.error = TRUE]
        counted == IF st.error
                   THEN Increment(st.stats, UNRECOVERABLE_PARSE_ERROR_COUNT, 1)
                   ELSE st.stats
    IN  IF st.raised
        THEN [raised |-> TRUE, records |-> <<>>, message_ids |-> st.message_ids,
              stats |-> st.stats, unrecoverable |-> dir]
        ELSE [raised |-> FALSE, records |-> st.records, message_ids |-> st.message_ids,
              stats |-> Increment(counted, RECORD_COUNT, Len(st.records)),
              unrecoverable |-> IF st.error THEN copy_to_unrecoverable(dir, file) ELSE dir]

MaxLines == 3       \* most lines of a file

FileCounts == {1, 2}

Garbage == [json |-> FALSE, timestamp |-> <<>>, message_id |-> <<>>]

JsonLine(timestamp, message_id) ==
    [json |-> TRUE, timestamp |-> timestamp, message_id |-> message_id]

LineKinds ==
    { Garbage,
      JsonLine(<<"2021-10-07T07:24:06">>, <<"A">>),
      JsonLine(<<"2021-10-07T07:24:06">>, <<"B">>),
      JsonLine(<<"2021-99-99T07:24:06">>, <<"A">>),
      JsonLine(<<>>, <<"A">>) }

\* what a corrupt file holds cannot be read: two such files are enough
FileKinds ==
    UNION { [gzip_ok : {TRUE}, lines : [1..n -> LineKinds]] : n \in 0..MaxLines }
      \cup { [gzip_ok |-> FALSE, lines |-> <<>>],
             [gzip_ok |-> FALSE, lines |-> <<JsonLine(<<"2021-10-07T07:24:06">>, <<"A">>)>>] }

\* the files named after their place in the group, the lines after theirs
Placed(kinds) ==
    [i \in DOMAIN kinds |->
        [name |-> i, gzip_ok |-> kinds[i].gzip_ok,
         lines |-> [j \in DOMAIN kinds[i].lines |->
                      [json |-> kinds[i].lines[j].json,
                       timestamp |-> kinds[i].lines[j].timestamp,
                       message_id |-> kinds[i].lines[j].message_id,
                       origin |-> <<i, j>>]]]]

LoaderInit ==
    /\ EngineIdle
    /\ ShardIdle
    /\ WorkerIdle
    /\ FilterIdle
    /\ \E n \in FileCounts : \E kinds \in [1..n -> FileKinds] : file_group = Placed(kinds)
    /\ file_pos = 1
    /\ loaded = <<>>
    /\ message_ids = {}
    /\ stats = [key \in {DUPLICATE_MESSAGE_ID_COUNT, RECORD_COUNT,
                         UNRECOVERABLE_PARSE_ERROR_COUNT} |-> 0]
    /\ unrecoverable = {}
    /\ lpc = "loading"
    /\ threads = <<>>

\* every file with a set of message ids of its own
LoadOf_FreshIds(file) == load_records(file, {}, stats, unrecoverable)

\* utils.py:32
LoadOf(file) == load_records(file, message_ids, stats, unrecoverable)

\* utils.py:31-32: load_records returns and its records are appended
LoadFile ==
    /\ lpc = "loading"
    /\ file_pos <= Len(file_group)
    /\ ~LoadOf(file_group[file_pos]).raised
    /\ loaded' = loaded \o LoadOf(file_group[file_pos]).records
    /\ message_ids' = LoadOf(file_group[file_pos]).message_ids
    /\ stats' = LoadOf(file_group[file_pos]).stats
    /\ unrecoverable' = LoadOf(file_group[file_pos]).unrecoverable
    /\ file_pos' = file_pos + 1
    /\ UNCHANGED <<file_group, lpc, threads, engineVars, shardVars, workerVars, filterVars>>

\* utils.py:32: an exception leaves load_records, and load_history with it
LoadFileRaises ==
    /\ lpc = "loading"
    /\ file_pos <= Len(file_group)
    /\ LoadOf(file_group[file_pos]).raised
    /\ message_ids' = LoadOf(file_group[file_pos]).message_ids
    /\ stats' = LoadOf(file_group[file_pos]).stats
    /\ lpc' = "raised"
    /\ UNCHANGED <<file_group, file_pos, loaded, unrecoverable, threads,
                   engineVars, shardVars, workerVars, filterVars>>

\* utils.py:34
LoadReturn ==
    /\ lpc = "loading"
    /\ file_pos > Len(file_group)
    /\ lpc' = "returned"
    /\ UNCHANGED <<file_group, file_pos, loaded, message_ids, stats, unrecoverable, threads,
                   engineVars, shardVars, workerVars, filterVars>>

LoaderNext ==
    \/ LoadFile
    \/ LoadFileRaises
    \/ LoadReturn

SpecLoader == LoaderInit /\ [][LoaderNext]_vars

(***************************************************************************)
(* The pool threads of one process.  Each thread loads a file group of its *)
(* own, with a set of message ids of its own, against the one stats sink   *)
(* of the process (config.py:9).  A statement stats[key] += n of           *)
(* load_records is a read of the item, an addition and a write of the      *)
(* item: the thread can be preempted between the read and the write.  The  *)
(* sink itself gives each read and each write of an item as one step.      *)
(***************************************************************************)
MaxThreads == 2     \* most threads of the pool

StatsKeys == {DUPLICATE_MESSAGE_ID_COUNT, RECORD_COUNT, UNRECOVERABLE_PARSE_ERROR_COUNT}

\* config.py:9: the sink of a new process
NewStats == [key \in StatsKeys |-> 0]

\* stats[key], read
stats_getitem(sink, key) == sink[key]

\* stats[key] = value
stats_setitem(sink, key, value) == [sink EXCEPT ![key] = value]

\* n times the statement stats[key] += 1
Times(n, key) == [i \in 1..n |-> [key |-> key, n |-> 1]]

\* utils.py:74, 84, 88: the statements stats[key] += n that load_records
\* executes for a file, in their order
IncrementsOf(file) ==
    LET r == load_records(file, {}, NewStats, {})
    IN  Times(r.stats[DUPLICATE_MESSAGE_ID_COUNT], DUPLICATE_MESSAGE_ID_COUNT)
          \o Times(r.stats[UNRECOVERABLE_PARSE_ERROR_COUNT], UNRECOVERABLE_PARSE_ERROR_COUNT)
          \o <<[key |-> RECORD_COUNT, n |-> Len(r.records)]>>

\* the one file of the group of a thread
ThreadFiles ==
    { [name |-> 1, gzip_ok |-> TRUE,
       lines |-> <<JsonLine(<<"2021-10-07T07:24:06">>, <<"A">>)>>],
      [name |-> 1, gzip_ok |-> TRUE,
       lines |-> <<JsonLine(<<"2021-10-07T07:24:06">>, <<"A">>),
                   JsonLine(<<"2021-10-07T07:24:06">>, <<"A">>)>>],
      [name |-> 1, gzip_ok |-> FALSE, lines |-> <<>>] }

ThreadsInit ==
    /\ EngineIdle
    /\ ShardIdle
    /\ WorkerIdle
    /\ FilterIdle
    /\ file_group = <<>>
    /\ file_pos = 1
    /\ loaded = <<>>
    /\ message_ids = {}
    /\ stats = NewStats
    /\ unrecoverable = {}
    /\ lpc = "off"
    /\ \E n \in 2..MaxThreads : \E files \in [1..n -> ThreadFiles] :
         threads = [t \in 1..n |->
                       [todo |-> IncrementsOf(files[t]), pc |-> "ready", item |-> 0,
                        performed |-> NewStats]]

\* utils.py:74, 84, 88: the thread reads the item of its next statement
ThreadReads ==
    \E t \in DOMAIN threads :
        /\ threads[t].pc = "ready"
        /\ threads[t].todo # <<>>
        /\ threads' = [threads EXCEPT
                         ![t].item = stats_getitem(stats, Head(threads[t].todo).key),
                         ![t].pc = "read"]
        /\ UNCHANGED <<file_group, file_pos, loaded, message_ids, stats, unrecoverable, lpc,
                       engineVars, shardVars, workerVars, filterVars>>

\* utils.py:74, 84, 88: the thread writes the item read, plus n
ThreadWrites ==
    \E t \in DOMAIN threads :
        /\ threads[t].pc = "read"
        /\ stats' = stats_setitem(stats, Head(threads[t].todo).key,
                                  threads[t].item + Head(threads[t].todo).n)
        /\ threads' = [threads EXCEPT
                         ![t].todo = Tail(@),
                         ![t].pc = "ready",
                         ![t].performed[Head(threads[t].todo).key] = @ + Head(threads[t].todo).n]
        /\ UNCHANGED <<file_group, file_pos, loaded, message_ids, unrecoverable, lpc,
                       engineVars, shardVars, workerVars, filterVars>>

ThreadsNext ==
    \/ ThreadReads
    \/ ThreadWrites

SpecThreads == ThreadsInit /\ [][ThreadsNext]_vars

(***************************************************************************)
(* The validation of the loaded records: filter_valid_records.  A record   *)
(* is [timestamp, type, history_id, model, count], every entry <<>> when   *)
(* the key is missing; a count is [is, value] with the JSON type it has.   *)
(***************************************************************************)
HISTORY_ID_KEY == "history_id"
TYPE_KEY == "type"
DECISION_KEY == "decision"
MODEL_KEY == "model"
TIMESTAMP_KEY == "timestamp"

\* hashlib.sha256(s.encode()).hexdigest(): different strings, different digests
sha256_hexdigest(string) ==
    CASE string = "" -> "e3b0c442"
      [] string = "h1" -> "9ac2197d"
      [] string = "h2" -> "d7f8a2a1"

\* `key in record`
Has(record, key) == record[key] # <<>>

\* the truth value of the local history_id: None and '' are false
Truthy(value) == value # <<>> /\ value # <<"">>

\* the history_id of the record taken without the hash check
validate_record_NoHash(record, latched, hashed) ==
    IF ~Has(record, TIMESTAMP_KEY) \/ ~Has(record, TYPE_KEY) \/ ~Has(record, HISTORY_ID_KEY)
    THEN TRUE
    ELSE IF record[TYPE_KEY] = <<DECISION_KEY>> /\ ~Has(record, MODEL_KEY)
    THEN TRUE
    ELSE Truthy(latched) /\ latched # record[HISTORY_ID_KEY]

\* utils.py:117-132: does validate_record raise
validate_record(record, latched, hashed) ==
    IF ~Has(record, TIMESTAMP_KEY) \/ ~Has(record, TYPE_KEY) \/ ~Has(record, HISTORY_ID_KEY)
    THEN TRUE
    ELSE IF record[TYPE_KEY] = <<DECISION_KEY>> /\ ~Has(record, MODEL_KEY)
    THEN TRUE
    ELSE IF Truthy(latched)
    THEN latched # record[HISTORY_ID_KEY]
    ELSE sha256_hexdigest(record[HISTORY_ID_KEY][1]) # hashed

MaxRecords == 3     \* longest list handed to filter_valid_records

IntCount(n) == <<[is |-> "int", value |-> n]>>

HistoryRecord(timestamp, type, id, model, count) ==
    [timestamp |-> timestamp, type |-> type, history_id |-> id,
     model |-> model, count |-> count]

Parsed == <<2021, 10, 7, 7, 24, 6>>

RecordKinds ==
    { HistoryRecord(<<Parsed>>, <<"decision">>, <<"h1">>, <<"messages-2.0">>, IntCount(1)),
      HistoryRecord(<<Parsed>>, <<"decision">>, <<"h1">>, <<"">>, IntCount(1)),
      HistoryRecord(<<Parsed>>, <<"decision">>, <<"h1">>, <<>>, IntCount(1)),
      HistoryRecord(<<Parsed>>, <<"decision">>, <<"h1">>, <<"messages-2.0">>, <<>>),
      HistoryRecord(<<Parsed>>, <<"decision">>, <<"h1">>, <<"messages-2.0">>, IntCount(0)),
      HistoryRecord(<<Parsed>>, <<"decision">>, <<"h1">>, <<"messages-2.0">>, IntCount(-1)),
      HistoryRecord(<<Parsed>>, <<"decision">>, <<"h1">>, <<"messages-2.0">>,
                    <<[is |-> "float", value |-> 1]>>),
      HistoryRecord(<<Parsed>>, <<"decision">>, <<"h1">>, <<"messages-2.0">>,
                    <<[is |-> "str", value |-> 1]>>),
      HistoryRecord(<<Parsed>>, <<"event">>, <<"h1">>, <<>>, <<>>),
      HistoryRecord(<<Parsed>>, <<"event">>, <<"h2">>, <<>>, <<>>),
      HistoryRecord(<<Parsed>>, <<"event">>, <<"">>, <<>>, <<>>),
      HistoryRecord(<<Parsed>>, <<"event">>, <<>>, <<>>, <<>>),
      HistoryRecord(<<Parsed>>, <<>>, <<"h1">>, <<>>, <<>>),
      HistoryRecord(<<>>, <<"event">>, <<"h1">>, <<>>, <<>>) }

FilterInit ==
    /\ EngineIdle
    /\ ShardIdle
    /\ WorkerIdle
    /\ LoaderIdle
    /\ hashed_history_id \in {sha256_hexdigest(s) : s \in {"", "h1", "h2"}}
    /\ \E n \in 0..MaxRecords : candidates \in [1..n -> RecordKinds]
    /\ results = <<>>
    /\ history_id = <<>>
    /\ record_pos = 1
    /\ fpc = "filtering"

\* utils.py:100-108: validate_record returns, the record is kept
FilterKeep ==
    /\ fpc = "filtering"
    /\ record_pos <= Len(candidates)
    /\ ~validate_record(candidates[record_pos], history_id, hashed_history_id)
    /\ history_id' = IF ~Truthy(history_id)
                     THEN candidates[record_pos][HISTORY_ID_KEY]
                     ELSE history_id
    /\ results' = Append(results, candidates[record_pos])
    /\ record_pos' = record_pos + 1
    /\ UNCHANGED <<hashed_history_id, candidates, fpc,
                   engineVars, shardVars, workerVars, loaderVars>>

\* utils.py:109-110: validate_record raises, the record is skipped
FilterSkip ==
    /\ fpc = "filtering"
    /\ record_pos <= Len(candidates)
    /\ validate_record(candidates[record_pos], history_id, hashed_history_id)
    /\ record_pos' = record_pos + 1
    /\ UNCHANGED <<hashed_history_id, candidates, results, history_id, fpc,
                   engineVars, shardVars, workerVars, loaderVars>>

\* utils.py:115
FilterReturn ==
    /\ fpc = "filtering"
    /\ record_pos > Len(candidates)
    /\ fpc' = "returned"
    /\ UNCHANGED <<hashed_history_id, candidates, results, history_id, record_pos,
                   engineVars, shardVars, workerVars, loaderVars>>

FilterNext ==
    \/ FilterKeep
    \/ FilterSkip
    \/ FilterReturn

SpecFilter == FilterInit /\ [][FilterNext]_vars

(***************************************************************************)
(* What the specification says a record contributes to a decision.         *)
(***************************************************************************)
KeyOf(decision) == Get(decision.reward_key, DEFAULT_REWARD_KEY)

Matches(record, decision) ==
    \/ record.type = "event"
    \/ record.type = "rewards" /\ KeyOf(decision) \in DOMAIN record.rewards

Contribution(record, decision) ==
    IF record.type = "event"
    THEN IF record.properties # <<>> /\ record.properties[1] # <<>>
         THEN record.properties[1][1]
         ELSE DEFAULT_EVENTS_REWARD_VALUE
    ELSE record.rewards[KeyOf(decision)]

InWindow(record, decision) ==
    /\ decision.timestamp < record.timestamp
    /\ record.timestamp <= decision.timestamp + window

RECURSIVE SumOver(_, _, _)
SumOver(list, n, decision) ==
    IF n = 0 THEN 0
    ELSE SumOver(list, n - 1, decision)
         + (IF Matches(list[n], decision) /\ InWindow(list[n], decision)
            THEN Contribution(list[n], decision) ELSE 0)

\* The sum of the contributions of `list` inside the window of `decision`
WindowSum(list, decision) == SumOver(list, Len(list), decision)

\* The records of the returned dict, bucket after bucket
RECURSIVE Flatten(_, _)
Flatten(dict, keys) ==
    IF keys = {} THEN <<>>
    ELSE LET k == CHOOSE x \in keys : TRUE
         IN  dict[k] \o Flatten(dict, keys \ {k})

Emitted == Flatten(Returned(records, buckets), DOMAIN buckets)

Strip(record) == [record EXCEPT !.reward = <<>>]

Count(list, value) == Cardinality({i \in DOMAIN list : Strip(list[i]) = value})

FirstReturned == pc = "returned" /\ call = 1

\* The loop is about to process a rewards or an event record
Contributing ==
    /\ pc = "loop"
    /\ pos <= Len(records)
    /\ records[pos].type \in {"rewards", "event"}

Decisions == {i \in DOMAIN records : records[i].type = "decision"}

(***************************************************************************)
(* C1: every decision returned by assign_rewards_to_decisions has a reward *)
(* equal to the sum of the matching contributions at instants t with       *)
(* t_D < t <= t_D + W (a missing reward field read as the default 0).      *)
(***************************************************************************)
C1_RewardIsWindowSum ==
    FirstReturned =>
        \A i \in DOMAIN Emitted :
            Get(Emitted[i].reward, DEFAULT_REWARD_VALUE) = WindowSum(input, Emitted[i])

(***************************************************************************)
(* C2: the multiset of returned records is the multiset of the decision    *)
(* records of the input: every decision once, nothing else.                *)
(***************************************************************************)
C2_EveryDecisionEmittedOnce ==
    FirstReturned =>
        \A i \in DOMAIN input :
            Count(Emitted, Strip(input[i]))
                = IF input[i].type = "decision" THEN Count(input, Strip(input[i])) ELSE 0

(***************************************************************************)
(* C3: when a contributing record is processed, a decision it matches      *)
(* whose window ends exactly at the record's timestamp (t = t_D + W)       *)
(* receives the contribution, and a decision whose window ended before     *)
(* (t > t_D + W) keeps its reward as it was.                               *)
(***************************************************************************)
C3_RightEndInclusive ==
    [][ Contributing =>
          \A i \in Decisions :
              LET d == records[i]
                  r == records[pos]
              IN  /\ (Matches(r, d) /\ r.timestamp = d.timestamp + window)
                        => records'[i].reward
                             = <<Get(d.reward, DEFAULT_REWARD_VALUE) + Contribution(r, d)>>
                  /\ (r.timestamp > d.timestamp + window)
                        => records'[i].reward = d.reward ]_vars

\* A decision has received a contribution made exactly at the end of its
\* window, and a later matching record beyond the window has been processed.
C3_Witness ==
    /\ call = 1
    /\ \E i, j, k \in DOMAIN records :
         /\ i < j /\ j < k /\ k < pos
         /\ records[i].type = "decision"
         /\ Matches(records[j], records[i])
         /\ Matches(records[k], records[i])
         /\ records[j].timestamp = records[i].timestamp + window
         /\ records[k].timestamp > records[i].timestamp + window
         /\ records[i].reward = <<Contribution(records[j], records[i])>>

(***************************************************************************)
(* C4: a rewards or event record with the timestamp of a decision adds     *)
(* nothing to that decision's reward, wherever it stands in the list.      *)
(***************************************************************************)
C4_LeftEndExclusive ==
    [][ Contributing =>
          \A i \in Decisions :
              records[pos].timestamp = records[i].timestamp
                  => records'[i].reward = records[i].reward ]_vars

(***************************************************************************)
(* C5: every returned decision carries a reward field, and it is 0 when    *)
(* no contribution of the list matched inside the decision's window.       *)
(***************************************************************************)
C5_RewardFieldPresent ==
    FirstReturned =>
        \A i \in DOMAIN Emitted :
            /\ Emitted[i].reward # <<>>
            /\ (\A j \in DOMAIN input :
                    ~(Matches(input[j], Emitted[i]) /\ InWindow(input[j], Emitted[i])))
                 => Emitted[i].reward = <<0>>

(***************************************************************************)
(* C6: when an event record is processed, every decision whose window      *)
(* contains the event, whatever its reward key, receives properties.value  *)
(* if the event has one and DEFAULT_EVENTS_REWARD_VALUE otherwise.         *)
(***************************************************************************)
C6_EventReachesEveryBucket ==
    [][ (Contributing /\ records[pos].type = "event") =>
          LET e == records[pos]
              value == IF e.properties = <<>> THEN DEFAULT_EVENTS_REWARD_VALUE
                       ELSE IF e.properties[1] = <<>> THEN DEFAULT_EVENTS_REWARD_VALUE
                       ELSE e.properties[1][1]
          IN  \A i \in Decisions :
                  InWindow(e, records[i])
                      => records'[i].reward
                           = <<Get(records[i].reward, DEFAULT_REWARD_VALUE) + value>> ]_vars

\* An event without properties.value has been added to two decisions of
\* different reward keys, and an event with a value to one of them.
C6_Witness ==
    /\ call = 1
    /\ pos = 4
    /\ records[1].type = "decision" /\ records[2].type = "decision"
    /\ KeyOf(records[1]) # KeyOf(records[2])
    /\ records[3].type = "event"
    /\ records[3].properties \in {<<>>, << <<>> >>}
    /\ InWindow(records[3], records[1]) /\ InWindow(records[3], records[2])
    /\ records[1].reward = <<DEFAULT_EVENTS_REWARD_VALUE>>
    /\ records[2].reward = <<DEFAULT_EVENTS_REWARD_VALUE>>

Directories == {d \in DOMAIN entries : entries[d]}

OwnersOf(d) ==
    {node_id \in DOMAIN owned : \E i \in DOMAIN owned[node_id] : d \in Range(owned[node_id][i])}

\* C8: for every input root and every node count N > 0 each directory is
\* selected for exactly one node_id of 0..N-1 -- no directory is selected for
\* two nodes, once every node has called each directory is selected for one,
\* nothing but a directory is selected -- and every call of a node selects
\* the same directories.
C8_ExactlyOneOwner ==
    /\ \A node_id \in DOMAIN owned : \A i \in DOMAIN owned[node_id] :
         /\ Range(owned[node_id][i]) \subseteq Directories
         /\ Cardinality(Range(owned[node_id][i])) = Len(owned[node_id][i])
         /\ \A j \in DOMAIN owned[node_id] : owned[node_id][j] = owned[node_id][i]
    /\ \A d \in Directories : Cardinality(OwnersOf(d)) <= 1
    /\ (\A node_id \in DOMAIN owned : owned[node_id] # <<>>)
         => \A d \in Directories : Cardinality(OwnersOf(d)) = 1

\* Three nodes have each called twice, each owns one of three directories,
\* and the root holds a plain file as well
C8_Witness ==
    /\ NodeCount = 3
    /\ \A node_id \in DOMAIN owned :
         /\ Len(owned[node_id]) >= 2
         /\ Len(owned[node_id][1]) = 1
    /\ Cardinality(Directories) = 3
    /\ \E d \in DOMAIN entries : ~entries[d]

AfterPruning == wpc \in {"pruned", "loop", "finished", "exited", "crashed"}

AfterFinishedRun ==
    /\ log.previous = "finished"
    /\ ~log.previous_all
    /\ log.touched = {}
    /\ ~env.reprocess_all

\* C9: after a run in non-reprocess mode has reached its end, a second run
\* in non-reprocess mode on the same inputs, no mtime changed, finds no file
\* to process, writes no output file and deletes none.
C9_SecondRunDoesNothing ==
    (AfterPruning /\ AfterFinishedRun) =>
        /\ files_to_process = <<>>
        /\ log.written = {}
        /\ log.deleted = {}

\* The second run is over, the node owns a directory, and an output file
\* written by a run is in place
C9_Witness ==
    /\ wpc = "finished"
    /\ AfterFinishedRun
    /\ dirs_to_process # <<>>
    /\ \E f \in Paths(outFS) :
         /\ outFS[f.dir][f.name].data # EmptyDict
         /\ f.dir \in Range(dirs_to_process)

OnlyTouched(f) ==
    /\ ~env.reprocess_all
    /\ log.fresh
    /\ log.touched = {f}
    /\ f.dir \in DOMAIN outFS
    /\ OUTPUT_FILENAME(f.name) \in DOMAIN outFS[f.dir]
    /\ inFS[f.dir][f.name].mtime > outFS[f.dir][OUTPUT_FILENAME(f.name)].mtime

\* C10: when every output was up to date and the mtime of exactly one input
\* file has been advanced past the mtime of its output, the files to process
\* of the next run are that one file and no other (none at all on a node
\* that does not own the directory of the file).
C10_OnlyTouchedFileReprocessed ==
    \A f \in Paths(inFS) :
        (wpc = "loop" /\ next_file = 1 /\ OnlyTouched(f)) =>
            files_to_process = IF f.dir \in Range(dirs_to_process) THEN <<f>> ELSE <<>>

\* The touched file is the one file to process, of several input files in
\* the directories of the node
C10_Witness ==
    /\ wpc = "loop"
    /\ next_file = 1
    /\ \E f \in Paths(inFS) :
         /\ OnlyTouched(f)
         /\ files_to_process = <<f>>
         /\ Cardinality({g \in Paths(inFS) : g.dir \in Range(dirs_to_process)}) >= 2


\* the output file f has an input file of the same stem in the input tree
HasInput(f) ==
    /\ f.dir \in DOMAIN inFS
    /\ \E n \in DOMAIN inFS[f.dir] : n.ext = "jsonl" /\ n.stem = f.name.stem

PruningStep == wpc = "dirs" /\ wpc' = "pruned" /\ ~env.reprocess_all

FilesIdentified == wpc \in {"loop", "unit", "finished", "exited", "crashed", "killed"}

OutputOf(f) == outFS[f.dir][OUTPUT_FILENAME(f.name)]

\* C12: when the previous run was killed while it wrote the output of an
\* input file, the restarted run, on the same inputs, has that file among
\* its files to process, and once it has finished the output of the file is
\* the one an uninterrupted run writes.
C12_RestartRewritesPartial ==
    \A f \in log.partial :
        (log.previous = "killed" /\ f.dir \in Range(dirs_to_process) /\ FilesIdentified) =>
            /\ f \in Range(files_to_process)
            /\ wpc = "finished" => OutputOf(f).data = Rewarded(f).value


\* C13: once the flag is set, the unit under way goes on to its write (the
\* signal does not end it), no further unit is begun -- the next look at
\* the flag, before the next unit, ends the process with status 0 -- and
\* the flag stays set for as long as the process lives.
C13_GracefulTermination ==
    [][SIGTERM =>
        /\ wpc = "unit" =>
             /\ wpc' \in {"loop", "crashed", "killed"}
             /\ wpc' = "loop" =>
                  /\ next_file' = next_file + 1
                  /\ files_to_process[next_file] \in log'.written
                  /\ outFS'[files_to_process[next_file].dir]
                          [OUTPUT_FILENAME(files_to_process[next_file].name)].data
                       = Rewarded(files_to_process[next_file]).value
        /\ wpc = "loop" =>
             /\ wpc' \in {"exited", "finished"}
             /\ ExitStatus' = 0
             /\ UNCHANGED <<outFS, next_file>>
        /\ SIGTERM' \/ wpc' = "started"]_vars

\* The flag was set during a unit; the unit was written, the process has
\* left with status 0 and a file to process is left over
C13_Witness ==
    /\ wpc = "exited"
    /\ ExitStatus = 0
    /\ SIGTERM
    /\ log.flagged >= 1
    /\ next_file = log.flagged + 1
    /\ next_file <= Len(files_to_process)
    /\ files_to_process[log.flagged] \in log.written
    /\ OutputOf(files_to_process[log.flagged]).data # Truncated


RunEnded == wpc \in {"finished", "crashed"}

OthersWritten(f) ==
    \A g \in Range(files_to_process) \ {f} : Rewarded(g).raised \/ g \in log.written

\* C14: when the write of the output of one unit has raised an exception,
\* the run goes on: at its end every other file to process of the run has
\* been processed and written.
C14_WriteErrorOthersContinue ==
    \A f \in log.failed :
        (RunEnded /\ f \in Range(files_to_process) /\ ~Rewarded(f).raised) => OthersWritten(f)

\* C15: when the engine has raised InvalidType for a unit (a record whose
\* type is none of decision, rewards, event), no output is written for that
\* unit and at the end of the run every other file to process of the run has
\* been processed and written.
C15_InvalidTypeOthersContinue ==
    \A f \in log.failed :
        (RunEnded /\ f \in Range(files_to_process) /\ Rewarded(f).raised) =>
            /\ f \notin log.written
            /\ OthersWritten(f)


(***************************************************************************)
(* Claims on the loader.                                                   *)
(***************************************************************************)
\* the lines of the files that load_history has gone through and could read
LinesRead ==
    UNION { Range(file_group[i].lines) : i \in {k \in 1..(file_pos - 1) : file_group[k].gzip_ok} }

\* a line that gives a record: a JSON object with a timestamp that parses
\* and a message_id
Loadable(line) ==
    /\ line.json
    /\ line.timestamp # <<>>
    /\ line.timestamp[1] \in ValidDates
    /\ line.message_id # <<>>

Before(a, b) == a[1] < b[1] \/ (a[1] = b[1] /\ a[2] < b[2])

\* C16: as long as load_history has not raised, no two of its records share
\* a message_id, across the files of the group; of the lines that give a
\* record with one message_id the first in load order is the one kept, and
\* every later one is dropped and counted once in Duplicate Records.
C16_MessageIdsUnique ==
    lpc \in {"loading", "returned"} =>
        /\ \A i, j \in DOMAIN loaded : loaded[i].message_id = loaded[j].message_id => i = j
        /\ {r.origin : r \in Range(loaded)} =
             {l.origin : l \in {x \in LinesRead :
                 /\ Loadable(x)
                 /\ ~\E y \in LinesRead :
                       Loadable(y) /\ y.message_id = x.message_id /\ Before(y.origin, x.origin)}}
        /\ stats[DUPLICATE_MESSAGE_ID_COUNT] =
             Cardinality({x \in LinesRead : Loadable(x)}) - Len(loaded)

\* load_history has returned two records and has dropped a line of the
\* second file whose message_id a line of the first file had
C16_Witness ==
    /\ lpc = "returned"
    /\ Len(loaded) >= 2
    /\ stats[DUPLICATE_MESSAGE_ID_COUNT] >= 1
    /\ \E r \in Range(loaded) : \E x \in LinesRead :
         /\ Loadable(x)
         /\ x.message_id = r.message_id
         /\ r.origin[1] = 1
         /\ x.origin[1] = 2


(***************************************************************************)
(* Claims on the validation.                                               *)
(***************************************************************************)
\* the record has the keys validate_record asks for and its history_id
\* hashes to the identifier of the group
HashesToGroup(record) ==
    /\ record.timestamp # <<>>
    /\ record.type # <<>>
    /\ record.history_id # <<>>
    /\ record.type = <<"decision">> => record.model # <<>>
    /\ sha256_hexdigest(record.history_id[1]) = hashed_history_id

\* C17: every record filter_valid_records has kept has a history_id whose
\* SHA-256 hex digest is the hashed_history_id of the group, all of them
\* have the same history_id, the one latched from the first valid record,
\* which does not change once latched; a record that fails the check is
\* dropped and the records after it are still filtered.
C17_KeptRecordsHashToGroup ==
    /\ [](fpc \in {"filtering", "returned"} =>
            /\ \A r \in Range(results) :
                 /\ r.history_id # <<>>
                 /\ sha256_hexdigest(r.history_id[1]) = hashed_history_id
                 /\ history_id = r.history_id
            /\ results = SelectSeq(SubSeq(candidates, 1, record_pos - 1), HashesToGroup))
    /\ [][(history_id # <<>> /\ history_id # <<"">>) => history_id' = history_id]_vars

\* Of three records the first and the third were kept, the second, of
\* another history_id, was dropped
C17_Witness ==
    /\ fpc = "returned"
    /\ Len(candidates) = 3
    /\ results = <<candidates[1], candidates[3]>>
    /\ candidates[2].history_id = <<"h2">>
    /\ candidates[2].type = <<"event">>
    /\ history_id = <<"h1">>

\* a count that is an integer of the JSON text and greater than zero
StrictlyPositiveInteger(count) ==
    /\ count # <<>>
    /\ count[1].is = "int"
    /\ count[1].value > 0

\* C18: a decision record that filter_valid_records has kept has a model,
\* present and not empty, and a count that is a strictly positive integer.
C18_DecisionNeedsModelAndCount ==
    \A r \in Range(results) :
        r.type = <<"decision">> =>
            /\ r.model # <<>>
            /\ r.model # <<"">>
            /\ StrictlyPositiveInteger(r.count)


\* the records load_history gives for the files of `group` from the i-th on
RECURSIVE RecordsFrom(_, _, _)
RecordsFrom(group, i, ids) ==
    IF i > Len(group) THEN <<>>
    ELSE load_records(group[i], ids, stats, {}).records
           \o RecordsFrom(group, i + 1, load_records(group[i], ids, stats, {}).message_ids)

Readable(file) == file.gzip_ok

CorruptFileNext ==
    lpc = "loading" /\ file_pos <= Len(file_group) /\ ~file_group[file_pos].gzip_ok

\* C19: when the gzip envelope of a file of the group does not decompress,
\* load_records gives no record of the file and registers no message_id, the
\* name of the file is put under the unrecoverable directory while the file
\* stays in the group, Unrecoverable Record Parse Errors rises by one and no
\* other counter moves, and load_history goes on: what it returns is what
\* it returns for the group without its corrupt files.
C19_CorruptFileRejected ==
    /\ [][CorruptFileNext =>
            /\ loaded' = loaded
            /\ message_ids' = message_ids
            /\ unrecoverable' = unrecoverable \cup {file_group[file_pos].name}
            /\ file_group' = file_group
            /\ stats' = [stats EXCEPT ![UNRECOVERABLE_PARSE_ERROR_COUNT] = @ + 1]
            /\ file_pos' = file_pos + 1
            /\ lpc' = "loading"]_vars
    /\ [](lpc = "returned" => loaded = RecordsFrom(SelectSeq(file_group, Readable), 1, {}))

\* The first file was corrupt; a record of the second file was loaded whose
\* message_id a line of the corrupt file has too
C19_Witness ==
    /\ lpc = "returned"
    /\ Len(file_group) = 2
    /\ ~file_group[1].gzip_ok
    /\ unrecoverable = {1}
    /\ stats[UNRECOVERABLE_PARSE_ERROR_COUNT] = 1
    /\ \E r \in Range(loaded) : \E x \in Range(file_group[1].lines) :
         Loadable(x) /\ x.message_id = r.message_id


IsJson(line) == line.json

\* the file without the lines that json.loads rejects
WithoutBadLines(file) == [file EXCEPT !.lines = SelectSeq(@, IsJson)]

BadLineNext ==
    /\ lpc = "loading"
    /\ file_pos <= Len(file_group)
    /\ file_group[file_pos].gzip_ok
    /\ \E x \in Range(file_group[file_pos].lines) : ~x.json

\* C20: a line that json.loads rejects is skipped and the loop over the
\* lines goes on: the records, the message ids and the counts of records and
\* duplicates that load_records gives for the file are those it gives for
\* the file without its bad lines, before and after them.
C20_BadLineSkipped ==
    [][BadLineNext =>
        LET clean == load_records(WithoutBadLines(file_group[file_pos]),
                                  message_ids, stats, unrecoverable)
        IN  IF clean.raised
            THEN lpc' = "raised"
            ELSE /\ lpc' = "loading"
                 /\ loaded' = loaded \o clean.records
                 /\ message_ids' = clean.message_ids
                 /\ stats'[RECORD_COUNT] = clean.stats[RECORD_COUNT]
                 /\ stats'[DUPLICATE_MESSAGE_ID_COUNT] = clean.stats[DUPLICATE_MESSAGE_ID_COUNT]]_vars

\* The file had a record, a bad line and another record: both records are
\* loaded
C20_Witness ==
    /\ lpc = "returned"
    /\ Len(file_group) = 1
    /\ Len(file_group[1].lines) = 3
    /\ ~file_group[1].lines[2].json
    /\ {r.origin : r \in Range(loaded)} = {<<1, 1>>, <<1, 3>>}


\* the line holds a data error: json.loads rejects it, or its timestamp is
\* missing or does not parse
DataError(line) ==
    \/ ~line.json
    \/ line.timestamp = <<>>
    \/ line.timestamp[1] \notin ValidDates

DataErrorNext ==
    /\ lpc = "loading"
    /\ file_pos <= Len(file_group)
    /\ file_group[file_pos].gzip_ok
    /\ \E x \in Range(file_group[file_pos].lines) : DataError(x)

\* C21: when a file that decompresses holds a line with a data error (not
\* JSON, or a timestamp missing or unparseable), load_records does not copy
\* the file to the unrecoverable directory, does not increment Unrecoverable
\* Record Parse Errors, and load_history goes on with the next file.
C21_DataErrorNoFileImpact ==
    [][DataErrorNext =>
        /\ unrecoverable' = unrecoverable
        /\ stats'[UNRECOVERABLE_PARSE_ERROR_COUNT] = stats[UNRECOVERABLE_PARSE_ERROR_COUNT]
        /\ lpc' = "loading"
        /\ file_pos' = file_pos + 1]_vars


(***************************************************************************)
(* Further claims on the reward engine.                                    *)
(***************************************************************************)
\* The loop is about to process a rewards record
RewardsNext ==
    /\ pc = "loop"
    /\ pos <= Len(records)
    /\ records[pos].type = "rewards"

\* C22: when a rewards record is processed, no bucket is created or dropped
\* (a key of the record without a decision gets no bucket and no entry of
\* the returned dict), the bucket of every key the record does not carry is
\* as it was, and every decision whose reward_key is not a key of the record
\* is as it was, its reward included.
C22_RewardsFrame ==
    [][RewardsNext =>
        LET keys == DOMAIN records[pos].rewards
        IN  /\ DOMAIN buckets' = DOMAIN buckets
            /\ DOMAIN Returned(records', buckets') = DOMAIN Returned(records, buckets)
            /\ \A k \in DOMAIN buckets \ keys : buckets'[k] = buckets[k]
            /\ \A i \in DOMAIN records :
                 (records[i].type = "decision" /\ KeyOf(records[i]) \notin keys)
                     => records'[i] = records[i]]_vars

\* A rewards record with the keys a and b was processed after a decision of
\* key a and a decision of the default key, both with the record in their
\* window: the first was rewarded, the second was not, and no bucket b exists
C22_Witness ==
    /\ call = 1
    /\ pos = 4
    /\ records[3].type = "rewards"
    /\ DOMAIN records[3].rewards = {"a", "b"}
    /\ records[1].type = "decision" /\ records[2].type = "decision"
    /\ KeyOf(records[1]) = "a" /\ KeyOf(records[2]) = DEFAULT_REWARD_KEY
    /\ InWindow(records[3], records[1]) /\ InWindow(records[3], records[2])
    /\ records[1].reward = <<1>>
    /\ records[2].reward = <<>>
    /\ DOMAIN buckets = {"a", DEFAULT_REWARD_KEY}
    /\ buckets[DEFAULT_REWARD_KEY] = <<2>>


\* The loop is about to enrol a decision record
DecisionNext ==
    /\ pc = "loop"
    /\ pos <= Len(records)
    /\ records[pos].type = "decision"

\* C23: a decision enrolled as a listener starts with the reward 0 (a
\* missing reward field read as 0), whatever reward the record of the list
\* handed to the engine carried, so that what is added to it afterwards is
\* the sum of the contributions of this run only.
C23_RewardStartsAtZero ==
    [][DecisionNext =>
        /\ buckets'[KeyOf(records[pos])][Len(buckets'[KeyOf(records[pos])])] = pos
        /\ Get(records'[pos].reward, DEFAULT_REWARD_VALUE) = 0]_vars


\* the keys of the buckets that the record at `pos` scans
ScannedKeys ==
    IF records[pos].type = "event"
    THEN DOMAIN buckets
    ELSE DOMAIN buckets \cap DOMAIN records[pos].rewards

\* the listener at index i of the list is out of its window at the record
OutOfWindow(i) == records[i].timestamp + window < records[pos].timestamp

\* what the scan of the record at `pos` does to the listeners of bucket k:
\* those out of their window are removed and keep their reward, the others
\* stay, in their order, and receive the value
ScanOf(k) ==
    /\ buckets'[k] = SelectSeq(buckets[k], LAMBDA i : ~OutOfWindow(i))
    /\ \A i \in Range(buckets[k]) :
         records'[i].reward =
            IF OutOfWindow(i) THEN records[i].reward
            ELSE <<Get(records[i].reward, DEFAULT_REWARD_VALUE)
                     + Contribution(records[pos], records[i])>>

\* the listener removed by the scan has no later record in its window, and
\* holds the sum of the contributions of its window
RemovedIsFinal(i) ==
    /\ \A j \in DOMAIN records : j >= pos => ~InWindow(records[j], records[i])
    /\ Get(records[i].reward, DEFAULT_REWARD_VALUE) = WindowSum(input, records[i])

\* C24: in the scan for a record at time t_current a listener is removed
\* exactly when its timestamp + W < t_current, and every other listener of
\* the bucket receives the value; no record from there on in the sorted list
\* falls inside the window of a removed listener, and the reward it holds
\* when it is removed is the sum of the contributions of its window.
C24_ExpiryIsExactAndFinal ==
    [][(Contributing /\ call = 1) =>
        \A k \in ScannedKeys :
            /\ ScanOf(k)
            /\ \A i \in Range(buckets[k]) : OutOfWindow(i) => RemovedIsFinal(i)]_vars


(***************************************************************************)
(* Further claims on the worker driver.                                    *)
(***************************************************************************)
IdentifyStep == wpc = "pruned" /\ wpc' = "loop"

\* the input file f has no mirrored output directory, or no output file of
\* its stem there, or one that is older than f
NeedsOutput(f) ==
    IF f.dir \notin DOMAIN outFS THEN TRUE
    ELSE IF OUTPUT_FILENAME(f.name) \notin DOMAIN outFS[f.dir] THEN TRUE
    ELSE inFS[f.dir][f.name].mtime > outFS[f.dir][OUTPUT_FILENAME(f.name)].mtime

\* C25: identify_files_to_process returns, each once, exactly the input
\* *.jsonl files of the given directories whose mirrored output directory
\* does not exist, or whose output file of the same stem does not exist, or
\* whose mtime is strictly greater than the mtime of that output file; an
\* input whose output has an equal or later mtime is not returned.
C25_ExactlyStaleFiles ==
    [][IdentifyStep =>
        /\ Range(files_to_process') =
             {f \in Paths(inFS) : /\ f.dir \in Range(dirs_to_process)
                                  /\ f.name.ext = "jsonl"
                                  /\ NeedsOutput(f)}
        /\ Cardinality(Range(files_to_process')) = Len(files_to_process')]_vars

\* The files identified are a file without output and a file newer than its
\* output; a third file of the node, whose output is not older, is left out
C25_Witness ==
    /\ wpc = "loop"
    /\ next_file = 1
    /\ ~env.reprocess_all
    /\ Len(files_to_process) = 2
    /\ \E f \in Range(files_to_process) :
         f.dir \notin DOMAIN outFS \/ OUTPUT_FILENAME(f.name) \notin DOMAIN outFS[f.dir]
    /\ \E f \in Range(files_to_process) :
         /\ f.dir \in DOMAIN outFS
         /\ OUTPUT_FILENAME(f.name) \in DOMAIN outFS[f.dir]
         /\ inFS[f.dir][f.name].mtime > OutputOf(f).mtime
    /\ \E f \in Paths(inFS) \ Range(files_to_process) :
         /\ f.dir \in Range(dirs_to_process)
         /\ f.dir \in DOMAIN outFS
         /\ OUTPUT_FILENAME(f.name) \in DOMAIN outFS[f.dir]
         /\ inFS[f.dir][f.name].mtime <= OutputOf(f).mtime


(***************************************************************************)
(* Claims on termination.                                                  *)
(***************************************************************************)
Reverse(list) == [j \in 1..Len(list) |-> list[Len(list) + 1 - j]]

\* the listeners the scan has visited are those of the bucket, as it was at
\* the call, from the last down to the one after index i, each once
VisitedOnce ==
    /\ scan.i \in 0..Len(scan.start)
    /\ scan.visited = Reverse(SubSeq(scan.start, scan.i + 1, Len(scan.start)))

\* C26: every scan of update_listeners, which deletes from the bucket it
\* runs over, visits every listener of the bucket exactly once and ends;
\* the engine ends on every record list, by returning or by InvalidType;
\* the loop of worker() begins at most one unit for each file to process
\* and ends.
C26_Termination ==
    /\ [](pc = "scan" => VisitedOnce)
    /\ (pc = "scan") ~> (pc = "keys" /\ scan.i = 0)
    /\ (wpc = "unit") ~> (wpc \in {"loop", "crashed"})
    /\ [](call <= Len(files_to_process))
    /\ <>(wpc \in {"finished", "crashed"})

\* In the second unit of the loop of worker() a scan has ended that ran
\* over a bucket of two listeners and deleted both, the later one first
C26_Witness ==
    /\ pc = "keys"
    /\ scan.i = 0
    /\ call = 2
    /\ Len(scan.start) = 2
    /\ scan.visited = Reverse(scan.start)
    /\ scan.listeners = <<>>
    /\ buckets[scan.key] = <<>>


(***************************************************************************)
(* Claims on the threads of the pool.                                      *)
(***************************************************************************)
RECURSIVE SumPerformed(_, _)
SumPerformed(key, n) ==
    IF n = 0 THEN 0 ELSE SumPerformed(key, n - 1) + threads[n].performed[key]

ThreadsDone == \A t \in DOMAIN threads : threads[t].todo = <<>>

\* C27: when every thread of the pool has loaded its file group, each
\* counter of the stats sink is the sum of the increments that the threads
\* have performed on it: no increment is lost.
C27_NoIncrementLost ==
    ThreadsDone =>
        \A key \in StatsKeys : stats[key] = SumPerformed(key, Len(threads))


(***************************************************************************)
(* Claims on the nodes of one job array.                                   *)
(***************************************************************************)
AllFinished == \A node_id \in DOMAIN nodes : nodes[node_id].wpc = "finished"

\* the input files whose output the node has written in its run
WrittenBy(node_id) ==
    {nodes[node_id].files_to_process[i] : i \in 1..(nodes[node_id].next_file - 1)}

OutputPath(f) == [dir |-> f.dir, name |-> OUTPUT_FILENAME(f.name)]

EveryInputHasOutput ==
    \A f \in Paths(inFS) :
        f.dir \in DOMAIN outFS /\ OUTPUT_FILENAME(f.name) \in DOMAIN outFS[f.dir]

NodePrunes(node_id) ==
    nodes[node_id].wpc = "dirs" /\ nodes'[node_id].wpc = "pruned"

\* C28: in reprocess_all mode the pruning step of a node removes no output
\* that another node of the job has written for a directory of its own, and
\* once all nodes of the job have finished every input file of every
\* directory has an output file.
C28_ReprocessAllKeepsOthersOutputs ==
    /\ [][\A node_id \in DOMAIN nodes : (env.reprocess_all /\ NodePrunes(node_id)) =>
            \A other \in DOMAIN nodes \ {node_id} : \A f \in WrittenBy(other) :
                OutputPath(f) \in Paths(outFS')]_vars
    /\ []((env.reprocess_all /\ AllFinished) => EveryInputHasOutput)


\* the output files that the node has written in its run
OutputsWrittenBy(node_id) == {OutputPath(f) : f \in WrittenBy(node_id)}

\* C29: for a fixed node count, no input file is among the files to process
\* of two different nodes of the job, and no output file is written by two
\* different nodes.
C29_NodesShareNoFile ==
    \A a, b \in DOMAIN nodes :
        a # b =>
            /\ Range(nodes[a].files_to_process) \cap Range(nodes[b].files_to_process) = {}
            /\ OutputsWrittenBy(a) \cap OutputsWrittenBy(b) = {}

\* Two nodes have finished; each had files to process and has written them
C29_Witness ==
    /\ AllFinished
    /\ env.node_count = 2
    /\ \A node_id \in DOMAIN nodes :
         /\ nodes[node_id].files_to_process # <<>>
         /\ \A f \in WrittenBy(node_id) :
              OutputPath(f) \in Paths(outFS) /\ OutputOf(f).data # EmptyDict
    /\ Cardinality(UNION {OutputsWrittenBy(node_id) : node_id \in DOMAIN nodes}) = 3


\* C30: in non-reprocess mode, whatever the output tree held before the
\* runs, once every node of the job has finished its run every input file of
\* every input directory has an output file in the mirrored output directory
\* whose mtime is not older than the mtime of the input file.
C30_AllNodesBringUpToDate ==
    (~env.reprocess_all /\ AllFinished) => UpToDate(inFS, outFS)

\* Two nodes have finished in non-reprocess mode.  Before the runs one input
\* file had an older output, one had none and one had an output that was
\* not older: the first two outputs were written, the third is as it was
C30_Witness ==
    /\ ~env.reprocess_all
    /\ AllFinished
    /\ env.node_count = 2
    /\ UpToDate(inFS, outFS)
    /\ \E f \in Paths(inFS) :
         /\ OutputPath(f) \in Paths(log.before)
         /\ log.before[f.dir][OUTPUT_FILENAME(f.name)].mtime < inFS[f.dir][f.name].mtime
         /\ OutputOf(f).data # EmptyDict
    /\ \E f \in Paths(inFS) :
         /\ OutputPath(f) \notin Paths(log.before)
         /\ OutputOf(f).data # EmptyDict
    /\ \E f \in Paths(inFS) :
         /\ OutputPath(f) \in Paths(log.before)
         /\ OutputOf(f) = log.before[f.dir][OUTPUT_FILENAME(f.name)]
         /\ OutputOf(f).mtime >= inFS[f.dir][f.name].mtime

=============================================================================
